---- MODULE Spec2Model ----
(***************************************************************************)
(* Model of the PR review service: the three entry points that analyse a   *)
(* list of files one at a time (the GitHub webhook handler, POST /pr and   *)
(* CodeAnalyzer.analyzeCodebase behind POST /codebase), the file selection *)
(* of GitHubService.getPRCodeFiles, the response handling of               *)
(* OpenAIService.analyzeCode, the aggregation of the per-file results, and *)
(* the unified-diff parser GitHubService.extractCodeChanges.               *)
(*                                                                         *)
(* Strings whose characters the code inspects (file names, patch text) are *)
(* sequences of one-character strings.  JavaScript values that may be      *)
(* undefined or NaN are tagged records: Num(n), Arr(s), Undefined, NaN.    *)
(***************************************************************************)
EXTENDS Integers, Sequences, FiniteSets, TLC

VARIABLES
    path,            \* entry point of the run: "webhook", "pr" or "codebase"
    pc,              \* position of the handler
    prFiles,         \* prInfo.files, in the order pulls.listFiles returned them
    fidx,            \* getPRCodeFiles: index of the file the for-loop is at
    codeFiles,       \* the files handed to the analysis loop
    idx,             \* analysis loop: index of the file the for-loop is at
    analysis,        \* analyzeCodebase: the local `analysis` awaiting its docs
    fileAnalyses,    \* the accumulating result sequence
    generateDocs,    \* analyzeCodebase: options.generateDocs
    contentFetches,  \* getFileContent calls made so far: [filename, ok]
    analysisCalls,   \* analyzeCode calls issued so far: [filename, start]
    analysisReplies, \* what each finished analyzeCode call got back, and when
    outstanding,     \* number of analyzeCode calls in flight
    now,             \* wall clock, ms since the run began
    timer,           \* ms left of the pending setTimeout of the pacing delay
    verdict,         \* the aggregate object the run computed (or NoVerdict)
    comments,        \* number of comments created on the pull request
    response,        \* the HTTP response sent (or NoResponse)
    githubToken,     \* config.githubToken is set
    delivery,        \* webhook: the x-github-event header and payload.action
    cancelled,       \* the caller has given up on the request (disconnect, timeout)
    deliveries,      \* webhook deliveries received for the pull request so far
    prFetches,       \* outcomes of the getPRInfo calls made so far
    commentBody,     \* body of the comment the run created (or Undefined)
    patch,           \* extractCodeChanges: its argument
    lines,           \* extractCodeChanges: patch.split('\n')
    lineNo,          \* extractCodeChanges: index of the line the loop is at
    addedLine,       \* extractCodeChanges: new-file counter
    removedLine,     \* extractCodeChanges: old-file counter
    changes,         \* extractCodeChanges: the records emitted so far
    ppc,             \* extractCodeChanges: position
    reqMethod,       \* the HTTP method of the request the app dispatches
    reqPath,         \* its path, as the segments between the slashes
    layer,           \* index.ts: the layer of the app stack the request is at
    rlayer,          \* the route of the mounted router it is at (0: not in a router)
    handled,         \* the handler that answered the request (or "none")
    runs,            \* concurrent webhook requests: the locals of each handler
    posted           \* comments created on the pull request by those requests

runVars == <<path, pc, prFiles, fidx, codeFiles, idx, analysis, fileAnalyses,
             generateDocs, contentFetches, analysisCalls, analysisReplies,
             outstanding, now, timer, verdict, comments, response,
             githubToken, delivery, cancelled, deliveries, prFetches,
             commentBody>>
parseVars == <<patch, lines, lineNo, addedLine, removedLine, changes, ppc>>
routeVars == <<reqMethod, reqPath, layer, rlayer, handled>>
twoVars == <<runs, posted>>
appVars == <<routeVars, twoVars>>
vars == <<runVars, parseVars, appVars>>
\* what no step of a handler writes: the configuration, the request, its caller
envVars == <<githubToken, delivery, cancelled, deliveries>>

----------------------------------------------------------------------------
(* Bounds of the model *)

MaxFiles == 3
TickMs == 250

(* Program constants *)

PacingMs == 500
MaxCodeChars == 50000
EmptyScore == 100

----------------------------------------------------------------------------
(* JavaScript values *)

Undefined == [t |-> "undefined"]
NaN == [t |-> "NaN"]
Num(n) == [t |-> "number", v |-> n]
Arr(s) == [t |-> "array", v |-> s]

Max(a, b) == IF a >= b THEN a ELSE b
Min(a, b) == IF a <= b THEN a ELSE b

UpperChars == <<"A","B","C","D","E","F","G","H","I","J","K","L","M",
                "N","O","P","Q","R","S","T","U","V","W","X","Y","Z">>
LowerChars == <<"a","b","c","d","e","f","g","h","i","j","k","l","m",
                "n","o","p","q","r","s","t","u","v","w","x","y","z">>

\* String.prototype.toLowerCase
ToLowerCase(s) ==
    [i \in 1..Len(s) |->
        IF \E k \in 1..Len(UpperChars) : UpperChars[k] = s[i]
        THEN LowerChars[CHOOSE k \in 1..Len(UpperChars) : UpperChars[k] = s[i]]
        ELSE s[i]]

\* String.prototype.lastIndexOf for a one-character needle: 0-based, -1 if absent
LastIndexOf(s, c) ==
    LET at == {i \in 1..Len(s) : s[i] = c}
    IN  IF at = {} THEN -1
        ELSE (CHOOSE i \in at : \A j \in at : j <= i) - 1

\* String.prototype.substring(start): a negative start counts as 0
Substring(s, start) == SubSeq(s, Max(start, 0) + 1, Len(s))

\* String.prototype.startsWith
StartsWith(s, p) == Len(s) >= Len(p) /\ SubSeq(s, 1, Len(p)) = p

----------------------------------------------------------------------------
(* GitHubService.getPRCodeFiles: which changed files are fetched *)

CodeExtensions ==
    { <<".","j","s">>, <<".","j","s","x">>, <<".","t","s">>, <<".","t","s","x">>,
      <<".","p","y">>, <<".","j","a","v","a">>, <<".","g","o">>, <<".","r","s">>,
      <<".","c","p","p">>, <<".","c">>, <<".","c","s">>, <<".","p","h","p">>,
      <<".","r","b">>, <<".","s","w","i","f","t">>, <<".","k","t">>,
      <<".","v","u","e">>, <<".","h","t","m","l">>, <<".","c","s","s">>,
      <<".","s","c","s","s">>, <<".","l","e","s","s">>, <<".","j","s","o","n">>,
      <<".","y","a","m","l">>, <<".","y","m","l">> }

\* const ext = file.filename.substring(file.filename.lastIndexOf('.'))
ExtOf(filename) == Substring(filename, LastIndexOf(filename, "."))

\* languageMap[ext.toLowerCase()] || 'text'
LanguageOf(ext) ==
    LET e == ToLowerCase(ext) IN
    CASE e \in {<<".","j","s">>, <<".","j","s","x">>} -> "javascript"
      [] e \in {<<".","t","s">>, <<".","t","s","x">>} -> "typescript"
      [] e = <<".","p","y">> -> "python"
      [] e = <<".","j","a","v","a">> -> "java"
      [] e = <<".","g","o">> -> "go"
      [] e = <<".","r","s">> -> "rust"
      [] e = <<".","c","p","p">> -> "cpp"
      [] e = <<".","c">> -> "c"
      [] e = <<".","c","s">> -> "csharp"
      [] e = <<".","p","h","p">> -> "php"
      [] e = <<".","r","b">> -> "ruby"
      [] e = <<".","s","w","i","f","t">> -> "swift"
      [] e = <<".","k","t">> -> "kotlin"
      [] e = <<".","v","u","e">> -> "vue"
      [] e = <<".","h","t","m","l">> -> "html"
      [] e = <<".","c","s","s">> -> "css"
      [] e = <<".","s","c","s","s">> -> "scss"
      [] e = <<".","l","e","s","s">> -> "less"
      [] e = <<".","j","s","o","n">> -> "json"
      [] e \in {<<".","y","a","m","l">>, <<".","y","m","l">>} -> "yaml"
      [] OTHER -> "text"

\* mutant: the status check is missing
IsRemovedNever(file) == FALSE

\* if (file.status === 'removed') continue;
IsRemoved(file) == file.status = "removed"

\* if (!codeExtensions.includes(ext.toLowerCase())) continue;
HasCodeExtension(file) == ToLowerCase(ExtOf(file.filename)) \in CodeExtensions

\* The text of a file is modelled by its length in characters, and a piece of
\* it by the span of characters it is made of: [from, to) of the text.
WholeText(len) == [from |-> 0, to |-> len]

\* String.prototype.substring(start, end) of a text of len characters: both
\* arguments are clamped to 0..len and swapped when start > end
SubstringSpan(len, start, end) ==
    LET a == Min(Max(start, 0), len)
        b == Min(Max(end, 0), len)
    IN  [from |-> Min(a, b), to |-> Max(a, b)]

\* mutant: the content is pushed as fetched
CodeFileEntryWhole(file, contentLen) ==
    [filename |-> file.filename,
     language |-> LanguageOf(ExtOf(file.filename)),
     code     |-> WholeText(contentLen),
     status   |-> file.status]

\* codeFiles.push({ filename, language, code: code.substring(0, 50000), status })
CodeFileEntry(file, contentLen) ==
    [filename |-> file.filename,
     language |-> LanguageOf(ExtOf(file.filename)),
     code     |-> SubstringSpan(contentLen, 0, MaxCodeChars),
     status   |-> file.status]

\* mutant: unshift instead of push
PushCodeFileFront(files, file, contentLen) == <<CodeFileEntry(file, contentLen)>> \o files

\* codeFiles.push(...) keeps the order of prInfo.files
PushCodeFile(files, file, contentLen) == Append(files, CodeFileEntry(file, contentLen))

----------------------------------------------------------------------------
(* The inputs of a run *)

FileA == [filename |-> <<"a",".","t","s">>, status |-> "modified"]
FileB == [filename |-> <<"B",".","P","Y">>, status |-> "added"]
FileC == [filename |-> <<"c",".","t",".","g","o">>, status |-> "renamed"]
FileD == [filename |-> <<"d",".","j","s">>, status |-> "removed"]
FileE == [filename |-> <<"M","a","k","e","f","i","l","e">>, status |-> "added"]
FileF == [filename |-> <<"f",".","m","d">>, status |-> "modified"]

ChangedFiles == {FileA, FileB, FileC, FileD, FileE, FileF}

\* sequences without repetition of at most n elements of S
Range(s) == {s[i] : i \in 1..Len(s)}
RECURSIVE ListsOf(_, _)
ListsOf(S, n) ==
    IF n = 0 THEN {<<>>}
    ELSE LET shorter == ListsOf(S, n - 1)
         IN  shorter \cup
             UNION {{Append(l, x) : x \in S \ Range(l)} :
                        l \in {s \in shorter : Len(s) = n - 1}}

PRFileLists == ListsOf(ChangedFiles, MaxFiles)

ContentLen == 120

\* what readCodebase returns: files of a supported language, as read from disk
DiskFile(f, len) ==
    [path |-> f.filename, code |-> WholeText(len),
     language |-> LanguageOf(ExtOf(f.filename))]

\* the length of what getFileContent returns for a file at the head commit:
\* a small file, one just over the limit of getPRCodeFiles, one exactly at it
RepoContentLen(filename) ==
    CASE filename = FileB.filename -> MaxCodeChars + ContentLen
      [] filename = FileC.filename -> MaxCodeChars
      [] OTHER -> ContentLen

----------------------------------------------------------------------------
(* OpenAIService.analyzeCode: what the completion call can come back with *)

IssueWarn == [severity |-> "warning", type |-> "code-smell", message |-> "long function"]
IssueCrit == [severity |-> "critical", type |-> "security", message |-> "sql injection",
              suggestion |-> "use a parameterized query"]
IssueInfo == [severity |-> "info", type |-> "best-practice", message |-> "add types",
              suggestion |-> ""]

Json(issues, score) ==
    [kind |-> "json", value |-> [issues |-> issues, qualityScore |-> score, summary |-> "assessment"]]

WellFormedReplies ==
    { Json(Arr(<<>>), Num(90)),
      Json(Arr(<<IssueWarn>>), Num(70)),
      Json(Arr(<<IssueCrit, IssueInfo>>), Num(50)) }

\* a JSON object without the issues list, and one without the score
ReplyNoIssues == Json(Undefined, Num(80))
ReplyNoScore == Json(Arr(<<IssueWarn>>), Undefined)
\* the request rejects; the message content is empty; the content is not JSON
ReplyReject == [kind |-> "reject", value |-> "Connection error."]
ReplyEmpty == [kind |-> "empty", value |-> ""]
ReplyText == [kind |-> "text", value |-> "Sorry, I cannot help with that."]

MalformedReplies == {ReplyEmpty, ReplyText, ReplyNoIssues, ReplyNoScore}
Replies == WellFormedReplies \cup MalformedReplies \cup {ReplyReject}

Threw(message) == [threw |-> TRUE, message |-> message]
Returned(value) == [threw |-> FALSE, value |-> value]

\* the message of the SyntaxError JSON.parse throws for a content that is not
\* JSON: the offending first character and the first ten characters of the text
JsonParseError(content) ==
    CASE content = "Sorry, I cannot help with that." ->
             "Unexpected token 'S', \"Sorry, I c\"... is not valid JSON"

\* try { response = await create(...); if (!content) throw ...; return JSON.parse(content) }
\* catch (error) { throw new Error(`Failed to analyze code: ${error.message}`) }
analyzeCode(reply) ==
    CASE reply.kind = "reject" -> Threw("Failed to analyze code: " \o reply.value)
      [] reply.kind = "empty"  -> Threw("Failed to analyze code: No response from OpenAI")
      [] reply.kind = "text"   -> Threw("Failed to analyze code: " \o JsonParseError(reply.value))
      [] OTHER                 -> Returned(reply.value)

----------------------------------------------------------------------------
(* The per-file results *)

\* webhooks.ts 55-62, analysis.ts 252-259: the try branch of the loop body
AnalysedResult(file, a) ==
    [filename     |-> file.filename,
     language     |-> file.language,
     status       |-> file.status,
     issues       |-> a.issues,
     qualityScore |-> a.qualityScore,
     summary      |-> a.summary]

\* webhooks.ts 65-72, analysis.ts 262-269: the catch branch of the loop body
FailedResult(file, message) ==
    [filename     |-> file.filename,
     language     |-> file.language,
     status       |-> file.status,
     issues       |-> Arr(<<>>),
     qualityScore |-> Num(0),
     summary      |-> "Analysis failed: " \o message]

\* fileAnalyses.push(...)
PushResult(results, entry) == Append(results, entry)

\* the try branch: the analysed result is pushed
TryResult(results, file, a) == PushResult(results, AnalysedResult(file, a))

\* mutant: a catch branch that only logs
CatchResultDropped(results, file, message) == results

\* the catch branch: the failure is logged and its placeholder is pushed
CatchResult(results, file, message) == PushResult(results, FailedResult(file, message))

\* CodeAnalyzer.analyzeFile: both branches return a FileAnalysis
analyzeFile(file, r) ==
    IF r.threw
    THEN [path |-> file.path, language |-> file.language, code |-> file.code,
          issues |-> Arr(<<[severity |-> "warning",
                            type     |-> "analysis-error",
                            message  |-> "Failed to analyze: " \o r.message]>>),
          qualityScore |-> Num(0)]
    ELSE [path |-> file.path, language |-> file.language, code |-> file.code,
          issues |-> r.value.issues,
          qualityScore |-> r.value.qualityScore]

\* analysis.documentation = docs
WithDocumentation(a) == [documentation |-> "docs"] @@ a

----------------------------------------------------------------------------
(* The aggregate: webhooks.ts 78-92, analysis.ts 275-299, codeAnalyzer 181-195 *)

\* fileAnalyses.flatMap(f => f.issues): an array is spliced in, any other
\* value (undefined) becomes one element
RECURSIVE FlatMapIssues(_)
FlatMapIssues(results) ==
    IF Len(results) = 0 THEN <<>>
    ELSE (IF Head(results).issues.t = "array"
          THEN Head(results).issues.v
          ELSE <<Head(results).issues>>) \o FlatMapIssues(Tail(results))

\* allIssues.filter(i => i.severity === ...) reads a property of every element:
\* a TypeError when an element is undefined
FilterThrows(allIssues) == \E i \in 1..Len(allIssues) : allIssues[i] = Undefined

\* mutant: the filter keeps every issue
CountSeverityAll(allIssues, severity) == Len(allIssues)

\* allIssues.filter(i => i.severity === severity).length
CountSeverity(allIssues, severity) ==
    Cardinality({i \in 1..Len(allIssues) : allIssues[i].severity = severity})

\* fileAnalyses.reduce((sum, f) => sum + f.qualityScore, 0)
RECURSIVE SumScores(_)
SumScores(results) ==
    IF Len(results) = 0 THEN Num(0)
    ELSE LET rest == SumScores(SubSeq(results, 1, Len(results) - 1))
             last == results[Len(results)].qualityScore
         IN  IF rest.t = "number" /\ last.t = "number"
             THEN Num(rest.v + last.v)
             ELSE NaN

\* mutant: Math.floor in place of Math.round
MathFloor(num, den) == num \div den

\* Math.round(num / den), den > 0: the integer nearest to the quotient, a tie
\* going up
MathRound(num, den) == (2 * num + den) \div (2 * den)

\* Math.round(avgScore), avgScore = length > 0 ? sum / length : 0
OverallScore(results) ==
    IF Len(results) > 0
    THEN LET sum == SumScores(results)
         IN  IF sum.t = "number" THEN Num(MathRound(sum.v, Len(results))) ELSE NaN
    ELSE Num(0)

Aggregate(results) ==
    LET allIssues == FlatMapIssues(results)
    IN  [files          |-> results,
         overallScore   |-> OverallScore(results),
         totalIssues    |-> Len(allIssues),
         criticalIssues |-> CountSeverity(allIssues, "critical"),
         warnings       |-> CountSeverity(allIssues, "warning")]

\* webhooks.ts 34-41, analysis.ts 233-238: the literal for codeFiles.length === 0
NoCodeFilesVerdict ==
    [files          |-> <<>>,
     overallScore   |-> Num(EmptyScore),
     totalIssues    |-> 0,
     criticalIssues |-> 0,
     warnings       |-> 0]

NoResponse == [status |-> 0]

----------------------------------------------------------------------------
(* The run: initial state *)

PRPaths == {"webhook", "pr"}
Paths == PRPaths \cup {"codebase"}

ParserIdle ==
    /\ patch = <<>>
    /\ lines = <<>>
    /\ lineNo = 0
    /\ addedLine = 0
    /\ removedLine = 0
    /\ changes = <<>>
    /\ ppc = "idle"

\* no request is being dispatched and no concurrent handler is running
AppIdle ==
    /\ reqMethod = "none"
    /\ reqPath = <<>>
    /\ layer = 0
    /\ rlayer = 0
    /\ handled = "none"
    /\ runs = <<>>
    /\ posted = 0

\* webhooks.ts 14 and 19: the deliveries the handler goes on with
AcceptedActions == {"opened", "synchronize", "reopened"}
IsPullRequestEvent(d) == d.event = "pull_request"
\* mutant: the action of the payload is not looked at
IsAcceptedActionAny(d) == TRUE

\* webhooks.ts 19
IsAcceptedAction(d) == d.action \in AcceptedActions

\* the webhook deliveries: event header and payload.action
NoDelivery == [event |-> "none", action |-> "none"]
PullRequest(action) == [event |-> "pull_request", action |-> action]
Deliveries ==
    {PullRequest(a) : a \in AcceptedActions \cup {"closed", "edited"}}
        \cup {[event |-> "push", action |-> "none"],
              [event |-> "issues", action |-> "opened"]}

\* the deliveries of the review runs gone through in full
ReviewDeliveries ==
    {PullRequest("opened"), PullRequest("closed"), [event |-> "push", action |-> "none"]}

\* a request has arrived at one of `paths`; the server has run since start-up
\* with or without GITHUB_TOKEN in its environment
InitRun(paths, arriving, fileLists) ==
    /\ path \in paths
    /\ pc = "start"
    /\ prFiles \in (IF path \in PRPaths THEN fileLists ELSE {<<>>})
    /\ generateDocs \in (IF path = "codebase" THEN BOOLEAN ELSE {FALSE})
    /\ fidx = 0
    /\ codeFiles = <<>>
    /\ idx = 0
    /\ analysis = Undefined
    /\ fileAnalyses = <<>>
    /\ contentFetches = <<>>
    /\ analysisCalls = <<>>
    /\ analysisReplies = <<>>
    /\ outstanding = 0
    /\ now = 0
    /\ timer = 0
    /\ verdict = Undefined
    /\ comments = 0
    /\ response = NoResponse
    /\ githubToken \in (IF path \in PRPaths THEN BOOLEAN ELSE {TRUE})
    /\ delivery \in (IF path = "webhook" THEN arriving ELSE {NoDelivery})
    /\ cancelled = FALSE
    /\ deliveries = 1
    /\ prFetches = <<>>
    /\ commentBody = Undefined
    /\ ParserIdle
    /\ AppIdle

Init == InitRun(Paths, ReviewDeliveries, PRFileLists)

----------------------------------------------------------------------------
(* The fetch step *)

\* the request has reached the first await of its handler
Accepted ==
    path = "webhook" => (IsPullRequestEvent(delivery) /\ IsAcceptedAction(delivery))

\* webhooks.ts 14-16: if (event !== 'pull_request') return res.status(200)...
IgnoreEvent ==
    /\ path = "webhook"
    /\ pc = "start"
    /\ ~IsPullRequestEvent(delivery)
    /\ response' = [status |-> 200, body |-> [message |-> "Event ignored"]]
    /\ pc' = "done"
    /\ UNCHANGED <<path, prFiles, fidx, codeFiles, idx, analysis, fileAnalyses,
                   generateDocs, contentFetches, analysisCalls, analysisReplies,
                   outstanding, now, timer, verdict, comments, parseVars, appVars,
                   envVars, prFetches, commentBody>>

\* webhooks.ts 18-21: if (![...].includes(action)) return res.status(200)...
IgnoreAction ==
    /\ path = "webhook"
    /\ pc = "start"
    /\ IsPullRequestEvent(delivery)
    /\ ~IsAcceptedAction(delivery)
    /\ response' = [status |-> 200, body |-> [message |-> "Action ignored"]]
    /\ pc' = "done"
    /\ UNCHANGED <<path, prFiles, fidx, codeFiles, idx, analysis, fileAnalyses,
                   generateDocs, contentFetches, analysisCalls, analysisReplies,
                   outstanding, now, timer, verdict, comments, parseVars, appVars,
                   envVars, prFetches, commentBody>>

\* the pull request of the run
PRNumber == "7"
Repo == "octo/app"

\* what pulls.get or pulls.listFiles can reject with: the HTTP status of the
\* RequestError (0: an error without a status, such as a network failure)
NotFound == [status |-> 404, message |-> "Not Found"]
BadCredentials == [status |-> 401, message |-> "Bad credentials"]
Forbidden == [status |-> 403, message |-> "API rate limit exceeded"]
BadGateway == [status |-> 502, message |-> "Bad Gateway"]
NetworkError == [status |-> 0, message |-> "connect ETIMEDOUT"]
FetchedOk == [status |-> 200, message |-> "OK"]
GitHubFailures == {NotFound, BadCredentials, Forbidden, BadGateway, NetworkError}

\* mutant: a catch that wraps every error the same way
getPRInfoErrorGeneric(error) == "Failed to fetch PR: " \o error.message

\* getPRInfo 94-102: the Error its catch throws
getPRInfoError(error) ==
    IF error.status = 404
    THEN "PR #" \o PRNumber \o " not found in " \o Repo
    ELSE IF error.status = 401 \/ error.status = 403
    THEN "GitHub authentication failed. Check your GITHUB_TOKEN."
    ELSE "Failed to fetch PR: " \o error.message

\* ensureClient 40-45
NoClientError ==
    "GitHub client not initialized. Please set GITHUB_TOKEN in environment variables."

\* webhooks.ts 101-106, analysis.ts 310-314: the catch of the handler
ErrorResponse(message) == [status |-> 500, body |-> [success |-> FALSE, error |-> message]]

\* the two places getPRInfo is called from, the handler (webhooks.ts 29,
\* analysis.ts 218) and getPRCodeFiles 198: ensureClient, then pulls.get
AtPullsGet ==
    /\ path \in PRPaths
    /\ \/ pc = "start" /\ Accepted
       \/ pc = "getPRCodeFiles"

\* getPRInfo 66: pulls.get has resolved, pulls.listFiles is awaited
AtListFiles == path \in PRPaths /\ pc \in {"listFiles", "listFilesAgain"}

\* getPRInfo is waiting for one of its two requests
AtGetPRInfo == AtPullsGet \/ AtListFiles

\* getPRInfo 60-66: pulls.get resolves and pulls.listFiles is requested
PullsGetReturns ==
    /\ AtPullsGet
    /\ githubToken
    /\ pc' = IF pc = "start" THEN "listFiles" ELSE "listFilesAgain"
    /\ UNCHANGED <<path, prFiles, fidx, codeFiles, idx, analysis, fileAnalyses,
                   generateDocs, contentFetches, analysisCalls, analysisReplies,
                   outstanding, now, timer, verdict, comments, response, parseVars, appVars,
                   envVars, prFetches, commentBody>>

\* webhooks.ts 29, analysis.ts 218: const prInfo = await githubService.getPRInfo(..)
\* returns once pulls.listFiles has resolved; getPRCodeFiles is called next
GetPRInfo ==
    /\ path \in PRPaths
    /\ pc = "listFiles"
    /\ prFetches' = Append(prFetches, FetchedOk)
    /\ pc' = "getPRCodeFiles"
    /\ UNCHANGED <<path, prFiles, fidx, codeFiles, idx, analysis, fileAnalyses,
                   generateDocs, contentFetches, analysisCalls, analysisReplies,
                   outstanding, now, timer, verdict, comments, response, parseVars, appVars,
                   envVars, commentBody>>

\* getPRInfo 56: ensureClient throws, and the handler's catch answers
GetPRInfoNoClient ==
    /\ AtPullsGet
    /\ ~githubToken
    /\ response' = ErrorResponse(NoClientError)
    /\ pc' = "done"
    /\ UNCHANGED <<path, prFiles, fidx, codeFiles, idx, analysis, fileAnalyses,
                   generateDocs, contentFetches, analysisCalls, analysisReplies,
                   outstanding, now, timer, verdict, comments, parseVars, appVars,
                   envVars, prFetches, commentBody>>

\* getPRInfo 59-102: pulls.get or pulls.listFiles rejects, getPRInfo throws, and
\* the handler's catch answers
GetPRInfoFails ==
    /\ AtGetPRInfo
    /\ githubToken
    /\ \E error \in GitHubFailures :
          /\ prFetches' = Append(prFetches, error)
          /\ response' = ErrorResponse(getPRInfoError(error))
    /\ pc' = "done"
    /\ UNCHANGED <<path, prFiles, fidx, codeFiles, idx, analysis, fileAnalyses,
                   generateDocs, contentFetches, analysisCalls, analysisReplies,
                   outstanding, now, timer, verdict, comments, parseVars, appVars,
                   envVars, commentBody>>

\* getPRCodeFiles 198-213: the getPRInfo of getPRCodeFiles returns once its
\* pulls.listFiles has resolved, and the for-loop over prInfo.files is entered
EnterGetPRCodeFiles ==
    /\ path \in PRPaths
    /\ pc = "listFilesAgain"
    /\ prFetches' = Append(prFetches, FetchedOk)
    /\ fidx' = 1
    /\ pc' = "fetch"
    /\ UNCHANGED <<path, prFiles, codeFiles, idx, analysis, fileAnalyses,
                   generateDocs, contentFetches, analysisCalls, analysisReplies,
                   outstanding, now, timer, verdict, comments, response, parseVars, appVars,
                   envVars, commentBody>>

AtFile == pc = "fetch" /\ fidx <= Len(prFiles)

\* only the loop index moves
NextFile ==
    /\ fidx' = fidx + 1
    /\ UNCHANGED <<path, pc, prFiles, idx, analysis, fileAnalyses, generateDocs,
                   analysisCalls, analysisReplies, outstanding, now, timer,
                   verdict, comments, response, parseVars, appVars,
                   envVars, prFetches, commentBody>>

\* getPRCodeFiles 214
SkipRemoved ==
    /\ AtFile
    /\ IsRemoved(prFiles[fidx])
    /\ NextFile
    /\ UNCHANGED <<codeFiles, contentFetches>>

\* getPRCodeFiles 216-217
SkipExtension ==
    /\ AtFile
    /\ ~IsRemoved(prFiles[fidx])
    /\ ~HasCodeExtension(prFiles[fidx])
    /\ NextFile
    /\ UNCHANGED <<codeFiles, contentFetches>>

\* the catch of getPRCodeFiles 243-245: console.warn, nothing is pushed
OnFetchFailure(files, file) == files

\* getPRCodeFiles 219-242: getFileContent returned the content
FetchContentOk ==
    /\ AtFile
    /\ ~IsRemoved(prFiles[fidx])
    /\ HasCodeExtension(prFiles[fidx])
    /\ contentFetches' = Append(contentFetches,
                                [filename |-> prFiles[fidx].filename, ok |-> TRUE,
                                 len |-> RepoContentLen(prFiles[fidx].filename)])
    /\ codeFiles' = PushCodeFile(codeFiles, prFiles[fidx],
                                 RepoContentLen(prFiles[fidx].filename))
    /\ NextFile

\* getPRCodeFiles 219-220, 243-245: getFileContent threw
FetchContentFails ==
    /\ AtFile
    /\ ~IsRemoved(prFiles[fidx])
    /\ HasCodeExtension(prFiles[fidx])
    /\ contentFetches' = Append(contentFetches,
                                [filename |-> prFiles[fidx].filename, ok |-> FALSE,
                                 len |-> 0])
    /\ codeFiles' = OnFetchFailure(codeFiles, prFiles[fidx])
    /\ NextFile

FilesReturned == pc = "fetch" /\ fidx > Len(prFiles)

\* webhooks.ts 33-41: no code files, the literal verdict goes to postPRComment
NoCodeFilesWebhook ==
    /\ path = "webhook"
    /\ FilesReturned
    /\ Len(codeFiles) = 0
    /\ verdict' = NoCodeFilesVerdict
    /\ pc' = "post"
    /\ UNCHANGED <<path, prFiles, fidx, codeFiles, idx, analysis, fileAnalyses,
                   generateDocs, contentFetches, analysisCalls, analysisReplies,
                   outstanding, now, timer, comments, response, parseVars, appVars,
                   envVars, prFetches, commentBody>>

\* analysis.ts 222-241: no code files, the literal verdict is the response
NoCodeFilesPR ==
    /\ path = "pr"
    /\ FilesReturned
    /\ Len(codeFiles) = 0
    /\ verdict' = NoCodeFilesVerdict
    /\ response' = [status |-> 200, body |-> [success |-> TRUE, data |-> verdict']]
    /\ pc' = "done"
    /\ UNCHANGED <<path, prFiles, fidx, codeFiles, idx, analysis, fileAnalyses,
                   generateDocs, contentFetches, analysisCalls, analysisReplies,
                   outstanding, now, timer, comments, parseVars, appVars,
                   envVars, prFetches, commentBody>>

\* webhooks.ts 46-47, analysis.ts 243-244
EnterLoop ==
    /\ FilesReturned
    /\ Len(codeFiles) > 0
    /\ idx' = 1
    /\ pc' = "loop"
    /\ UNCHANGED <<path, prFiles, fidx, codeFiles, analysis, fileAnalyses,
                   generateDocs, contentFetches, analysisCalls, analysisReplies,
                   outstanding, now, timer, verdict, comments, response, parseVars, appVars,
                   envVars, prFetches, commentBody>>

\* analysis.ts 73 and 100-106: analyzeCodebaseSchema.parse throws a ZodError for
\* a body without directoryPath
ValidationError ==
    [status |-> 400,
     body |-> [success |-> FALSE,
               error   |-> "Validation error",
               details |-> <<[code |-> "invalid_type", expected |-> "string",
                              received |-> "undefined",
                              path |-> <<"directoryPath">>,
                              message |-> "Required"]>>]]

BadRequest(message) == [status |-> 400, body |-> [success |-> FALSE, error |-> message]]

\* the handler answers without a run
AnswerCodebase(resp) ==
    /\ path = "codebase"
    /\ pc = "start"
    /\ response' = resp
    /\ pc' = "done"
    /\ UNCHANGED <<path, prFiles, fidx, codeFiles, idx, analysis, fileAnalyses,
                   generateDocs, contentFetches, analysisCalls, analysisReplies,
                   outstanding, now, timer, verdict, comments, parseVars, appVars,
                   envVars, prFetches, commentBody>>

\* analysis.ts 73, 100-106: the body is not valid
ValidationFails == AnswerCodebase(ValidationError)

\* analysis.ts 76-83: fs.stat resolves, the path is not a directory
StatNotDirectory == AnswerCodebase(BadRequest("Path is not a directory"))

\* analysis.ts 76, 84-89: fs.stat rejects
StatFails == AnswerCodebase(BadRequest("Directory does not exist"))

\* the entries fs.readdir can return: files of a supported language
DirListings == ListsOf({FileA, FileB, FileC}, MaxFiles)

\* analysis.ts 76, 91 and readCodebase 82: fs.stat resolves with a directory,
\* analyzeCodebase calls readCodebase, which awaits fs.readdir
StatOk ==
    /\ path = "codebase"
    /\ pc = "start"
    /\ pc' = "readdir"
    /\ UNCHANGED <<path, prFiles, fidx, codeFiles, idx, analysis, fileAnalyses,
                   generateDocs, contentFetches, analysisCalls, analysisReplies,
                   outstanding, now, timer, verdict, comments, response, parseVars, appVars,
                   envVars, prFetches, commentBody>>

\* readCodebase 82-84: fs.readdir resolves with the entries of the directory
ReaddirOk ==
    /\ pc = "readdir"
    /\ prFiles' \in DirListings
    /\ fidx' = 1
    /\ pc' = "read"
    /\ UNCHANGED <<path, codeFiles, idx, analysis, fileAnalyses,
                   generateDocs, contentFetches, analysisCalls, analysisReplies,
                   outstanding, now, timer, verdict, comments, response, parseVars, appVars,
                   envVars, prFetches, commentBody>>

\* readCodebase 82, 115-117: fs.readdir rejects, the catch of walkDir logs it
\* and no file is read
ReaddirFails ==
    /\ pc = "readdir"
    /\ fidx' = 1
    /\ pc' = "read"
    /\ UNCHANGED <<path, prFiles, codeFiles, idx, analysis, fileAnalyses,
                   generateDocs, contentFetches, analysisCalls, analysisReplies,
                   outstanding, now, timer, verdict, comments, response, parseVars, appVars,
                   envVars, prFetches, commentBody>>

AtEntry == pc = "read" /\ fidx <= Len(prFiles)

\* readCodebase 100-107: fs.readFile resolves and the file is pushed
ReadFileOk ==
    /\ AtEntry
    /\ codeFiles' = Append(codeFiles, DiskFile(prFiles[fidx], ContentLen))
    /\ fidx' = fidx + 1
    /\ UNCHANGED <<path, pc, prFiles, idx, analysis, fileAnalyses,
                   generateDocs, contentFetches, analysisCalls, analysisReplies,
                   outstanding, now, timer, verdict, comments, response, parseVars, appVars,
                   envVars, prFetches, commentBody>>

\* readCodebase 100, 109-111: fs.readFile rejects (the file is gone or cannot
\* be read), the catch logs it and the walk goes on
ReadFileFails ==
    /\ AtEntry
    /\ fidx' = fidx + 1
    /\ UNCHANGED <<path, pc, prFiles, codeFiles, idx, analysis, fileAnalyses,
                   generateDocs, contentFetches, analysisCalls, analysisReplies,
                   outstanding, now, timer, verdict, comments, response, parseVars, appVars,
                   envVars, prFetches, commentBody>>

\* readCodebase 120 and analyzeCodebase 155-161: readCodebase returns the
\* files, its own locals are gone, and the loop over the files starts
ReadCodebase ==
    /\ path = "codebase"
    /\ pc = "read"
    /\ fidx > Len(prFiles)
    /\ prFiles' = <<>>
    /\ fidx' = 0
    /\ idx' = 1
    /\ pc' = "loop"
    /\ UNCHANGED <<path, codeFiles, analysis, fileAnalyses, generateDocs,
                   contentFetches, analysisCalls, analysisReplies, outstanding,
                   now, timer, verdict, comments, response, parseVars, appVars,
                   envVars, prFetches, commentBody>>

----------------------------------------------------------------------------
(* The analysis loop: webhooks.ts 47-76, analysis.ts 244-273,
   codeAnalyzer analyzeCodebase 161-179 *)

FileName(file) == IF path = "codebase" THEN file.path ELSE file.filename

\* await openAIService.analyzeCode(...): the call is issued
CallAnalyze ==
    /\ pc = "loop"
    /\ idx <= Len(codeFiles)
    /\ analysisCalls' = Append(analysisCalls,
                               [filename |-> FileName(codeFiles[idx]),
                                code |-> codeFiles[idx].code, start |-> now])
    /\ outstanding' = outstanding + 1
    /\ pc' = "calling"
    /\ UNCHANGED <<path, prFiles, fidx, codeFiles, idx, analysis, fileAnalyses,
                   generateDocs, contentFetches, analysisReplies, now, timer,
                   verdict, comments, response, parseVars, appVars,
                   envVars, prFetches, commentBody>>

\* the call is over: its reply is logged and the pacing timer is the next await
CallOver(reply) ==
    /\ analysisReplies' = Append(analysisReplies, [reply |-> reply, end |-> now])
    /\ outstanding' = outstanding - 1
    /\ UNCHANGED <<path, prFiles, fidx, codeFiles, idx, generateDocs,
                   contentFetches, analysisCalls, now, verdict, comments,
                   response, parseVars, appVars,
                   envVars, prFetches, commentBody>>

\* await new Promise(resolve => setTimeout(resolve, 500))
StartDelay ==
    /\ timer' = PacingMs
    /\ pc' = "delay"

\* webhooks.ts 49-62, analysis.ts 246-259: analyzeCode returned
AnalysisReturns ==
    /\ path \in PRPaths
    /\ pc = "calling"
    /\ \E reply \in Replies :
          /\ ~analyzeCode(reply).threw
          /\ fileAnalyses' =
                TryResult(fileAnalyses, codeFiles[idx], analyzeCode(reply).value)
          /\ CallOver(reply)
    /\ StartDelay
    /\ UNCHANGED analysis

\* webhooks.ts 63-73, analysis.ts 260-270: analyzeCode threw
AnalysisThrows ==
    /\ path \in PRPaths
    /\ pc = "calling"
    /\ \E reply \in Replies :
          /\ analyzeCode(reply).threw
          /\ fileAnalyses' =
                CatchResult(fileAnalyses, codeFiles[idx], analyzeCode(reply).message)
          /\ CallOver(reply)
    /\ StartDelay
    /\ UNCHANGED analysis

\* analyzeCodebase 165-176 without generateDocs: analyzeFile returned, push
AnalyzeFileDone ==
    /\ path = "codebase"
    /\ pc = "calling"
    /\ ~generateDocs
    /\ \E reply \in Replies :
          /\ fileAnalyses' =
                PushResult(fileAnalyses, analyzeFile(codeFiles[idx], analyzeCode(reply)))
          /\ CallOver(reply)
    /\ StartDelay
    /\ UNCHANGED analysis

\* analyzeCodebase 165-169 with generateDocs: analyzeFile returned, docs are next
AnalyzeFileThenDocs ==
    /\ path = "codebase"
    /\ pc = "calling"
    /\ generateDocs
    /\ \E reply \in Replies :
          /\ analysis' = analyzeFile(codeFiles[idx], analyzeCode(reply))
          /\ CallOver(reply)
    /\ pc' = "docs"
    /\ UNCHANGED <<fileAnalyses, timer>>

\* analyzeCodebase 169-170, 176: generateDocumentation returned
DocsGenerated ==
    /\ pc = "docs"
    /\ fileAnalyses' = PushResult(fileAnalyses, WithDocumentation(analysis))
    /\ analysis' = Undefined
    /\ StartDelay
    /\ UNCHANGED <<path, prFiles, fidx, codeFiles, idx, generateDocs,
                   contentFetches, analysisCalls, analysisReplies, outstanding,
                   now, verdict, comments, response, parseVars, appVars,
                   envVars, prFetches, commentBody>>

\* analyzeCodebase 171-173, 176: generateDocumentation threw
DocsFail ==
    /\ pc = "docs"
    /\ fileAnalyses' = PushResult(fileAnalyses, analysis)
    /\ analysis' = Undefined
    /\ StartDelay
    /\ UNCHANGED <<path, prFiles, fidx, codeFiles, idx, generateDocs,
                   contentFetches, analysisCalls, analysisReplies, outstanding,
                   now, verdict, comments, response, parseVars, appVars,
                   envVars, prFetches, commentBody>>

\* time passes while the pacing timer is pending
Tick ==
    /\ pc = "delay"
    /\ timer > 0
    /\ now' = now + TickMs
    /\ timer' = Max(0, timer - TickMs)
    /\ UNCHANGED <<path, pc, prFiles, fidx, codeFiles, idx, analysis,
                   fileAnalyses, generateDocs, contentFetches, analysisCalls,
                   analysisReplies, outstanding, verdict, comments, response,
                   parseVars, appVars,
                   envVars, prFetches, commentBody>>

\* mutant: the pacing promise is not awaited
DelayNotAwaited == TRUE

\* the setTimeout callback resolves the awaited promise once the delay is over
DelayElapsed == timer = 0

\* mutant: a file whose analysis call failed is analysed once more
NextIndexRetriesFailure(i) ==
    IF /\ Len(analysisReplies) > 0
       /\ analysisReplies[Len(analysisReplies)].reply.kind # "json"
       /\ Len(analysisCalls) <= Len(codeFiles)
    THEN i ELSE i + 1

\* for (const file of codeFiles): the iterator moves on by one file
NextIndex(i) == i + 1

\* the await of the pacing promise returns: the for-loop goes to the next file
DelayDone ==
    /\ pc = "delay"
    /\ DelayElapsed
    /\ idx' = NextIndex(idx)
    /\ pc' = "loop"
    /\ UNCHANGED <<path, prFiles, fidx, codeFiles, analysis, fileAnalyses,
                   generateDocs, contentFetches, analysisCalls, analysisReplies,
                   outstanding, now, timer, verdict, comments, response,
                   parseVars, appVars,
                   envVars, prFetches, commentBody>>

----------------------------------------------------------------------------
(* After the loop *)

\* mutant: the loop is left after its first file
LoopOverAfterFirst == pc = "loop" /\ idx > 1

LoopOver == pc = "loop" /\ idx > Len(codeFiles)

\* the TypeError of the filter callback reaches the catch of the handler:
\* webhooks.ts 101-106, analysis.ts 301-314 and 99-112
AggregateThrows ==
    /\ LoopOver
    /\ FilterThrows(FlatMapIssues(fileAnalyses))
    /\ response' = [status |-> 500,
                    body |-> [success |-> FALSE,
                              error |-> "Cannot read properties of undefined (reading 'severity')"]]
    /\ pc' = "done"
    /\ UNCHANGED <<path, prFiles, fidx, codeFiles, idx, analysis, fileAnalyses,
                   generateDocs, contentFetches, analysisCalls, analysisReplies,
                   outstanding, now, timer, verdict, comments, parseVars, appVars,
                   envVars, prFetches, commentBody>>

\* webhooks.ts 78-92
AggregateWebhook ==
    /\ path = "webhook"
    /\ LoopOver
    /\ ~FilterThrows(FlatMapIssues(fileAnalyses))
    /\ verdict' = Aggregate(fileAnalyses)
    /\ pc' = "post"
    /\ UNCHANGED <<path, prFiles, fidx, codeFiles, idx, analysis, fileAnalyses,
                   generateDocs, contentFetches, analysisCalls, analysisReplies,
                   outstanding, now, timer, comments, response, parseVars, appVars,
                   envVars, prFetches, commentBody>>

\* analysis.ts 275-300 (POST /pr); codeAnalyzer 181-195 and analysis.ts 95-98
\* (POST /codebase)
AggregateRespond ==
    /\ path \in {"pr", "codebase"}
    /\ LoopOver
    /\ ~FilterThrows(FlatMapIssues(fileAnalyses))
    /\ verdict' = Aggregate(fileAnalyses)
    /\ response' = [status |-> 200, body |-> [success |-> TRUE, data |-> verdict']]
    /\ pc' = "done"
    /\ UNCHANGED <<path, prFiles, fidx, codeFiles, idx, analysis, fileAnalyses,
                   generateDocs, contentFetches, analysisCalls, analysisReplies,
                   outstanding, now, timer, comments, parseVars, appVars,
                   envVars, prFetches, commentBody>>

\* webhooks.ts 43 and 96-100: the response that follows postPRComment
WebhookResponse ==
    IF Len(codeFiles) = 0
    THEN [status |-> 200, body |-> [message |-> "No code files to analyze"]]
    ELSE [status |-> 200,
          body |-> [success |-> TRUE,
                    message |-> "PR analyzed and comment posted",
                    data |-> verdict]]

\* postPRComment 155: the emoji of the file heading
StatusEmoji(status) ==
    IF status = "added" THEN "plus" ELSE IF status = "modified" THEN "memo" ELSE "bin"

\* postPRComment 163: file.issues.slice(0, 5)
TopIssues == 5

\* the characters of a severity word
Chars(word) ==
    CASE word = "critical" -> <<"c","r","i","t","i","c","a","l">>
      [] word = "warning"  -> <<"w","a","r","n","i","n","g">>
      [] word = "info"     -> <<"i","n","f","o">>
      [] word = "error"    -> <<"e","r","r","o","r">>

\* String.prototype.toUpperCase
ToUpperCase(s) ==
    [i \in 1..Len(s) |->
        IF \E k \in 1..Len(LowerChars) : LowerChars[k] = s[i]
        THEN UpperChars[CHOOSE k \in 1..Len(LowerChars) : LowerChars[k] = s[i]]
        ELSE s[i]]

\* postPRComment 167: if (issue.suggestion), for the suggestion of a reply, a
\* string when it is there: an absent and an empty suggestion are both falsy
HasSuggestion(issue) ==
    IF "suggestion" \in DOMAIN issue THEN issue.suggestion # "" ELSE FALSE

\* postPRComment 165-169: one line per issue, and a second line when the issue
\* has a suggestion
RenderIssue(issue) ==
    LET line == [emoji    |-> IF issue.severity = "critical" THEN "red"
                              ELSE IF issue.severity = "warning" THEN "warn"
                              ELSE "info",
                 severity |-> ToUpperCase(Chars(issue.severity)),
                 message  |-> issue.message]
    IN  IF HasSuggestion(issue)
        THEN [emoji |-> line.emoji, severity |-> line.severity,
              message |-> line.message, suggestion |-> issue.suggestion]
        ELSE line

\* postPRComment 166: issue.severity.toUpperCase() throws a TypeError for an
\* issue without a severity among those rendered
RenderThrows(result) ==
    \E k \in 1..Len(result.files) :
        \E i \in 1..Min(Len(result.files[k].issues.v), TopIssues) :
            "severity" \notin DOMAIN result.files[k].issues.v[i]

\* postPRComment 155-175: the section of one file
RenderFile(file) ==
    LET n == Len(file.issues.v)
    IN  [emoji        |-> StatusEmoji(file.status),
         filename     |-> file.filename,
         status       |-> file.status,
         language     |-> file.language,
         qualityScore |-> file.qualityScore,
         issuesFound  |-> n,
         issues       |-> [i \in 1..Min(n, TopIssues) |-> RenderIssue(file.issues.v[i])],
         more         |-> Max(n - TopIssues, 0)]

\* webhooks.ts 37 and 91: result.summary
VerdictSummary(result) ==
    IF Len(result.files) = 0
    THEN [text |-> "No code files found in this PR", files |-> 0,
          critical |-> 0, warnings |-> 0]
    ELSE [text |-> "Analyzed files in PR. Found critical issues and warnings.",
          files |-> Len(result.files),
          critical |-> result.criticalIssues, warnings |-> result.warnings]

\* postPRComment 142-179: the body of the comment
RenderComment(result) ==
    [overallScore   |-> result.overallScore,
     filesAnalyzed  |-> Len(result.files),
     totalIssues    |-> result.totalIssues,
     criticalIssues |-> result.criticalIssues,
     warnings       |-> result.warnings,
     summary        |-> VerdictSummary(result),
     files          |-> [k \in 1..Len(result.files) |-> RenderFile(result.files[k])]]

\* postPRComment 139-188: createComment succeeded
CommentPosted ==
    /\ pc = "post"
    /\ githubToken
    /\ ~RenderThrows(verdict)
    /\ commentBody' = RenderComment(verdict)
    /\ comments' = comments + 1
    /\ response' = WebhookResponse
    /\ pc' = "done"
    /\ UNCHANGED <<path, prFiles, fidx, codeFiles, idx, analysis, fileAnalyses,
                   generateDocs, contentFetches, analysisCalls, analysisReplies,
                   outstanding, now, timer, verdict, parseVars, appVars,
                   envVars, prFetches>>

\* mutant: postPRComment without its try/catch, the error reaches the handler
AfterPostFailureThrown(resp) == ErrorResponse("HttpError")

\* postPRComment 189-191: the catch logs the error, the promise resolves and
\* the handler goes on to its response
AfterPostFailure(resp) == resp

\* postPRComment returned without a comment: createComment or the rendering of
\* the body threw (189-191), or there is no token (134-137)
CommentFails ==
    /\ pc = "post"
    /\ response' = IF githubToken THEN AfterPostFailure(WebhookResponse)
                                  ELSE WebhookResponse
    /\ pc' = "done"
    /\ UNCHANGED <<path, prFiles, fidx, codeFiles, idx, analysis, fileAnalyses,
                   generateDocs, contentFetches, analysisCalls, analysisReplies,
                   outstanding, now, timer, verdict, comments, parseVars, appVars,
                   envVars, prFetches, commentBody>>

Next ==
    \/ IgnoreEvent
    \/ IgnoreAction
    \/ PullsGetReturns
    \/ GetPRInfo
    \/ GetPRInfoNoClient
    \/ GetPRInfoFails
    \/ EnterGetPRCodeFiles
    \/ SkipRemoved
    \/ SkipExtension
    \/ FetchContentOk
    \/ FetchContentFails
    \/ NoCodeFilesWebhook
    \/ NoCodeFilesPR
    \/ EnterLoop
    \/ ValidationFails
    \/ StatNotDirectory
    \/ StatFails
    \/ StatOk
    \/ ReaddirOk
    \/ ReaddirFails
    \/ ReadFileOk
    \/ ReadFileFails
    \/ ReadCodebase
    \/ CallAnalyze
    \/ AnalysisReturns
    \/ AnalysisThrows
    \/ AnalyzeFileDone
    \/ AnalyzeFileThenDocs
    \/ DocsGenerated
    \/ DocsFail
    \/ Tick
    \/ DelayDone
    \/ AggregateThrows
    \/ AggregateWebhook
    \/ AggregateRespond
    \/ CommentPosted
    \/ CommentFails

Spec == Init /\ [][Next]_vars

----------------------------------------------------------------------------
(* The webhook endpoint over several deliveries for one pull request, with a
   caller that may give up on a request *)

MaxDeliveries == 2

HookFileLists == ListsOf({FileA, FileB, FileD, FileE}, MaxFiles)

InitHook == InitRun({"webhook"}, Deliveries, HookFileLists)

\* the caller closes the connection, or times out, before the response; no
\* handler listens for it
ClientDisconnects ==
    /\ path \in PRPaths
    /\ response = NoResponse
    /\ ~cancelled
    /\ cancelled' = TRUE
    /\ UNCHANGED <<path, pc, prFiles, fidx, codeFiles, idx, analysis, fileAnalyses,
                   generateDocs, contentFetches, analysisCalls, analysisReplies,
                   outstanding, now, timer, verdict, comments, response, parseVars, appVars,
                   githubToken, delivery, deliveries, prFetches, commentBody>>

\* webhooks.ts 9-12: the next delivery for the pull request arrives after the
\* response to the one before; the handler starts with fresh locals, the
\* comments on the pull request stay
Redeliver ==
    /\ path = "webhook"
    /\ pc = "done"
    /\ deliveries < MaxDeliveries
    /\ deliveries' = deliveries + 1
    /\ delivery' \in Deliveries
    /\ cancelled' = FALSE
    /\ pc' = "start"
    /\ fidx' = 0
    /\ codeFiles' = <<>>
    /\ idx' = 0
    /\ fileAnalyses' = <<>>
    /\ contentFetches' = <<>>
    /\ analysisCalls' = <<>>
    /\ analysisReplies' = <<>>
    /\ now' = 0
    /\ timer' = 0
    /\ verdict' = Undefined
    /\ response' = NoResponse
    /\ prFetches' = <<>>
    /\ commentBody' = Undefined
    /\ UNCHANGED <<path, prFiles, analysis, generateDocs, outstanding, comments,
                   githubToken, parseVars, appVars>>

NextHook ==
    \/ IgnoreEvent
    \/ IgnoreAction
    \/ PullsGetReturns
    \/ GetPRInfo
    \/ GetPRInfoNoClient
    \/ GetPRInfoFails
    \/ EnterGetPRCodeFiles
    \/ SkipRemoved
    \/ SkipExtension
    \/ FetchContentOk
    \/ FetchContentFails
    \/ NoCodeFilesWebhook
    \/ EnterLoop
    \/ CallAnalyze
    \/ AnalysisReturns
    \/ AnalysisThrows
    \/ Tick
    \/ DelayDone
    \/ AggregateThrows
    \/ AggregateWebhook
    \/ CommentPosted
    \/ CommentFails
    \/ ClientDisconnects
    \/ Redeliver

SpecHook == InitHook /\ [][NextHook]_vars

\* a step of the handler of the delivery in progress: a continuation the event
\* loop runs once the promise it awaits has settled or its timer has fired
HandlerStep ==
    \/ IgnoreEvent
    \/ IgnoreAction
    \/ PullsGetReturns
    \/ GetPRInfo
    \/ GetPRInfoNoClient
    \/ GetPRInfoFails
    \/ EnterGetPRCodeFiles
    \/ SkipRemoved
    \/ SkipExtension
    \/ FetchContentOk
    \/ FetchContentFails
    \/ NoCodeFilesWebhook
    \/ EnterLoop
    \/ CallAnalyze
    \/ AnalysisReturns
    \/ AnalysisThrows
    \/ Tick
    \/ DelayDone
    \/ AggregateThrows
    \/ AggregateWebhook
    \/ CommentPosted
    \/ CommentFails

\* one delivery to the webhook endpoint, with a caller that may give up
NextLive ==
    \/ HandlerStep
    \/ ClientDisconnects

\* the delivery when every external call settles and every timer fires: the
\* handler is never suspended for ever
SpecLive == InitHook /\ [][NextLive]_vars /\ WF_vars(HandlerStep)

----------------------------------------------------------------------------
(* GitHubService.extractCodeChanges: string helpers *)

\* String.prototype.split for a one-character separator
RECURSIVE Split(_, _)
Split(s, sep) ==
    IF \E i \in 1..Len(s) : s[i] = sep
    THEN LET i == CHOOSE k \in 1..Len(s) :
                     s[k] = sep /\ \A j \in 1..(k - 1) : s[j] # sep
         IN  <<SubSeq(s, 1, i - 1)>> \o Split(SubSeq(s, i + 1, Len(s)), sep)
    ELSE <<s>>

Digits == <<"0","1","2","3","4","5","6","7","8","9">>
IsDigit(c) == \E d \in 1..Len(Digits) : Digits[d] = c
DigitValue(c) == (CHOOSE d \in 1..Len(Digits) : Digits[d] = c) - 1

\* the character at 1-based position i, "" past either end
CharAt(s, i) == IF i \in 1..Len(s) THEN s[i] ELSE ""

\* parseInt(text, 10) of a run of digits
RECURSIVE ParseInt(_)
ParseInt(text) ==
    IF Len(text) = 0 THEN 0
    ELSE 10 * ParseInt(SubSeq(text, 1, Len(text) - 1)) + DigitValue(text[Len(text)])

\* \d* from position i, greedy: the position of the last digit of the run
\* (i - 1 when the run is empty)
RECURSIVE DigitsEnd(_, _)
DigitsEnd(s, i) == IF IsDigit(CharAt(s, i)) THEN DigitsEnd(s, i + 1) ELSE i - 1

\* ,?\d* after a number that ends at e: the position of the last character taken
CountEnd(s, e) == IF CharAt(s, e + 1) = "," THEN DigitsEnd(s, e + 2) ELSE e

\* /@@ -(\d+),?\d* \+(\d+),?\d* @@/ tried at position p
HunkMatchAt(s, p) ==
    LET e1 == DigitsEnd(s, p + 4)
        c1 == CountEnd(s, e1)
        e2 == DigitsEnd(s, c1 + 3)
        c2 == CountEnd(s, e2)
    IN  /\ CharAt(s, p) = "@" /\ CharAt(s, p + 1) = "@"
        /\ CharAt(s, p + 2) = " " /\ CharAt(s, p + 3) = "-"
        /\ e1 >= p + 4
        /\ CharAt(s, c1 + 1) = " " /\ CharAt(s, c1 + 2) = "+"
        /\ e2 >= c1 + 3
        /\ CharAt(s, c2 + 1) = " "
        /\ CharAt(s, c2 + 2) = "@" /\ CharAt(s, c2 + 3) = "@"

\* line.match(...): the leftmost match and its two groups, or no match
HunkMatch(s) ==
    IF \E p \in 1..Len(s) : HunkMatchAt(s, p)
    THEN LET p  == CHOOSE k \in 1..Len(s) :
                       HunkMatchAt(s, k) /\ \A j \in 1..(k - 1) : ~HunkMatchAt(s, j)
             e1 == DigitsEnd(s, p + 4)
             c1 == CountEnd(s, e1)
             e2 == DigitsEnd(s, c1 + 3)
         IN  [matched  |-> TRUE,
              oldStart |-> ParseInt(SubSeq(s, p + 4, e1)),
              newStart |-> ParseInt(SubSeq(s, c1 + 3, e2))]
    ELSE [matched |-> FALSE, oldStart |-> 0, newStart |-> 0]

\* line.startsWith('@@')
IsHunkLine(l) == StartsWith(l, <<"@","@">>)
\* line.startsWith('+') && !line.startsWith('+++')
IsAddedLine(l) == StartsWith(l, <<"+">>) /\ ~StartsWith(l, <<"+","+","+">>)
\* line.startsWith('-') && !line.startsWith('---')
IsRemovedLine(l) == StartsWith(l, <<"-">>) /\ ~StartsWith(l, <<"-","-","-">>)
\* line.startsWith(' ')
IsContextLine(l) == StartsWith(l, <<" ">>)

\* { line, content: line.substring(1), type }
Change(number, l, type) == [line |-> number, content |-> Substring(l, 1), type |-> type]

----------------------------------------------------------------------------
(* The patches the parser is run on *)

MaxPatchLines == 4

LineHunkFull == <<"@","@"," ","-","1","0",",","3"," ","+","2","0",",","3"," ","@","@">>
LineHunkNoCount == <<"@","@"," ","-","1"," ","+","5"," ","@","@">>
LineHunkBad == <<"@","@"," ","b","a","d"," ","@","@">>
LineAdded == <<"+","a">>
LineRemoved == <<"-","b">>
LineContext == <<" ","c">>
LinePlusPlus == <<"+","+","+","x">>
LineMinusMinus == <<"-","-","-","y">>
LineNoNewline == <<"\\"," ","N","o"," ","n","e","w","l","i","n","e">>

PatchLines == {LineHunkFull, LineHunkNoCount, LineHunkBad, LineAdded, LineRemoved, LineContext, LinePlusPlus, LineMinusMinus, LineNoNewline}

\* the lines joined by "\n", as the patch text of a changed file
RECURSIVE JoinLines(_)
JoinLines(ls) ==
    IF Len(ls) = 0 THEN <<>>
    ELSE IF Len(ls) = 1 THEN ls[1]
    ELSE ls[1] \o <<"\n">> \o JoinLines(Tail(ls))

Patches == {JoinLines(ls) : ls \in UNION {[1..n -> PatchLines] : n \in 0..MaxPatchLines}}

----------------------------------------------------------------------------
(* GitHubService.extractCodeChanges as a loop over the lines of the patch *)

RunIdle ==
    /\ path = "none"
    /\ pc = "idle"
    /\ prFiles = <<>>
    /\ generateDocs = FALSE
    /\ fidx = 0
    /\ codeFiles = <<>>
    /\ idx = 0
    /\ analysis = Undefined
    /\ fileAnalyses = <<>>
    /\ contentFetches = <<>>
    /\ analysisCalls = <<>>
    /\ analysisReplies = <<>>
    /\ outstanding = 0
    /\ now = 0
    /\ timer = 0
    /\ verdict = Undefined
    /\ comments = 0
    /\ response = NoResponse
    /\ githubToken = TRUE
    /\ delivery = NoDelivery
    /\ cancelled = FALSE
    /\ deliveries = 0
    /\ prFetches = <<>>
    /\ commentBody = Undefined

InitParse ==
    /\ RunIdle
    /\ AppIdle
    /\ patch \in Patches
    /\ lines = <<>>
    /\ lineNo = 0
    /\ addedLine = 0
    /\ removedLine = 0
    /\ changes = <<>>
    /\ ppc = "start"

\* extractCodeChanges 116: if (!patch) return changes
ReturnNoPatch ==
    /\ ppc = "start"
    /\ Len(patch) = 0
    /\ ppc' = "done"
    /\ UNCHANGED <<runVars, appVars, patch, lines, lineNo, addedLine, removedLine, changes>>

\* extractCodeChanges 118-122
SplitPatch ==
    /\ ppc = "start"
    /\ Len(patch) > 0
    /\ lines' = Split(patch, "\n")
    /\ lineNo' = 1
    /\ ppc' = "loop"
    /\ UNCHANGED <<runVars, appVars, patch, addedLine, removedLine, changes>>

AtLine == ppc = "loop" /\ lineNo <= Len(lines)

\* the for-loop goes to the next line
NextLine ==
    /\ lineNo' = lineNo + 1
    /\ UNCHANGED <<runVars, appVars, patch, lines, ppc>>

\* extractCodeChanges 123-130: a hunk header the pattern matches
HunkHeader ==
    /\ AtLine
    /\ IsHunkLine(lines[lineNo])
    /\ HunkMatch(lines[lineNo]).matched
    /\ removedLine' = HunkMatch(lines[lineNo]).oldStart
    /\ addedLine' = HunkMatch(lines[lineNo]).newStart
    /\ NextLine
    /\ UNCHANGED changes

\* extractCodeChanges 123-125, 129: a line with @@ the pattern does not match
HunkHeaderNoMatch ==
    /\ AtLine
    /\ IsHunkLine(lines[lineNo])
    /\ ~HunkMatch(lines[lineNo]).matched
    /\ NextLine
    /\ UNCHANGED <<addedLine, removedLine, changes>>

\* extractCodeChanges 132-138
EmitAdded ==
    /\ AtLine
    /\ ~IsHunkLine(lines[lineNo])
    /\ IsAddedLine(lines[lineNo])
    /\ changes' = Append(changes, Change(addedLine, lines[lineNo], "added"))
    /\ addedLine' = addedLine + 1
    /\ removedLine' = removedLine + 1
    /\ NextLine

\* mutant: a removed line advances the new-file counter too
EmitRemovedAdvancesBoth ==
    /\ AtLine
    /\ ~IsHunkLine(lines[lineNo])
    /\ ~IsAddedLine(lines[lineNo])
    /\ IsRemovedLine(lines[lineNo])
    /\ changes' = Append(changes, Change(removedLine, lines[lineNo], "removed"))
    /\ removedLine' = removedLine + 1
    /\ addedLine' = addedLine + 1
    /\ NextLine

\* extractCodeChanges 139-144
EmitRemoved ==
    /\ AtLine
    /\ ~IsHunkLine(lines[lineNo])
    /\ ~IsAddedLine(lines[lineNo])
    /\ IsRemovedLine(lines[lineNo])
    /\ changes' = Append(changes, Change(removedLine, lines[lineNo], "removed"))
    /\ removedLine' = removedLine + 1
    /\ NextLine
    /\ UNCHANGED addedLine

\* extractCodeChanges 145-151
EmitContext ==
    /\ AtLine
    /\ ~IsHunkLine(lines[lineNo])
    /\ ~IsAddedLine(lines[lineNo])
    /\ ~IsRemovedLine(lines[lineNo])
    /\ IsContextLine(lines[lineNo])
    /\ changes' = Append(changes, Change(addedLine, lines[lineNo], "context"))
    /\ addedLine' = addedLine + 1
    /\ removedLine' = removedLine + 1
    /\ NextLine

\* extractCodeChanges 132-152: no branch takes the line
IgnoreLine ==
    /\ AtLine
    /\ ~IsHunkLine(lines[lineNo])
    /\ ~IsAddedLine(lines[lineNo])
    /\ ~IsRemovedLine(lines[lineNo])
    /\ ~IsContextLine(lines[lineNo])
    /\ NextLine
    /\ UNCHANGED <<addedLine, removedLine, changes>>

\* extractCodeChanges 155: return changes
ReturnChanges ==
    /\ ppc = "loop"
    /\ lineNo > Len(lines)
    /\ ppc' = "done"
    /\ UNCHANGED <<runVars, appVars, patch, lines, lineNo, addedLine, removedLine, changes>>

NextParse ==
    \/ ReturnNoPatch
    \/ SplitPatch
    \/ HunkHeader
    \/ HunkHeaderNoMatch
    \/ EmitAdded
    \/ EmitRemoved
    \/ EmitContext
    \/ IgnoreLine
    \/ ReturnChanges

SpecParse == InitParse /\ [][NextParse]_vars

----------------------------------------------------------------------------
(* index.ts: the dispatch of a request through the app's stack of layers *)

\* analysis.ts: the routes of the router, in the order they are registered
analysisRoutes ==
    << [method |-> "POST", path |-> <<"code">>, handler |-> "/code"],
       [method |-> "POST", path |-> <<"codebase">>, handler |-> "/codebase"],
       [method |-> "POST", path |-> <<"architecture">>, handler |-> "/architecture"],
       [method |-> "POST", path |-> <<"documentation", "generate">>,
        handler |-> "/documentation/generate"],
       [method |-> "POST", path |-> <<"tests", "generate">>, handler |-> "/tests/generate"],
       [method |-> "POST", path |-> <<"pr">>, handler |-> "/pr"] >>

\* webhooks.ts: its one route
webhookRoutes ==
    << [method |-> "POST", path |-> <<"github">>, handler |-> "/github"] >>

\* index.ts 9-55: the layers of the app, in the order they are registered
AppStack ==
    << [kind |-> "middleware", name |-> "cors"],
       [kind |-> "middleware", name |-> "json"],
       [kind |-> "middleware", name |-> "urlencoded"],
       [kind |-> "route", method |-> "GET", path |-> <<"health">>, handler |-> "/health"],
       [kind |-> "mount", path |-> <<"api", "analyze">>, routes |-> analysisRoutes],
       [kind |-> "mount", path |-> <<"api", "documentation">>, routes |-> analysisRoutes],
       [kind |-> "mount", path |-> <<"api", "tests">>, routes |-> analysisRoutes],
       [kind |-> "mount", path |-> <<"api", "webhooks">>, routes |-> webhookRoutes],
       [kind |-> "route", method |-> "GET", path |-> <<>>, handler |-> "/"],
       [kind |-> "error"],
       [kind |-> "notFound"] >>

\* the mount path is a prefix of the request path, segment by segment
MountMatches(mountPath, p) ==
    /\ Len(mountPath) <= Len(p)
    /\ SubSeq(p, 1, Len(mountPath)) = mountPath

\* req.url inside a mounted router: the request path without the mount path
StripMount(mountPath, p) == SubSeq(p, Len(mountPath) + 1, Len(p))

\* a route handles the request when the method and the whole path match
RouteMatches(route, method, p) == route.method = method /\ route.path = p

Methods == {"GET", "POST"}

RequestPaths ==
    { <<>>,
      <<"health">>,
      <<"api", "analyze", "code">>,
      <<"api", "analyze", "codebase">>,
      <<"api", "analyze", "architecture">>,
      <<"api", "analyze", "pr">>,
      <<"api", "analyze", "documentation", "generate">>,
      <<"api", "analyze", "tests", "generate">>,
      <<"api", "documentation", "generate">>,
      <<"api", "documentation", "documentation", "generate">>,
      <<"api", "documentation", "code">>,
      <<"api", "tests", "generate">>,
      <<"api", "tests", "tests", "generate">>,
      <<"api", "webhooks", "github">>,
      <<"api", "webhooks", "code">>,
      <<"api">>,
      <<"generate">> }

\* a request arrives at the first layer of the app
InitRoute ==
    /\ RunIdle
    /\ ParserIdle
    /\ reqMethod \in Methods
    /\ reqPath \in RequestPaths
    /\ layer = 1
    /\ rlayer = 0
    /\ handled = "none"
    /\ runs = <<>>
    /\ posted = 0

Dispatching == handled = "none" /\ layer \in 1..Len(AppStack)
AtApp(kind) == Dispatching /\ rlayer = 0 /\ AppStack[layer].kind = kind
InRouter == Dispatching /\ rlayer > 0

\* index.ts 9-11: cors, express.json and express.urlencoded call next()
PassMiddleware ==
    /\ AtApp("middleware")
    /\ layer' = layer + 1
    /\ UNCHANGED <<runVars, parseVars, twoVars, reqMethod, reqPath, rlayer, handled>>

\* index.ts 13 and 26: app.get matches, its handler answers
AppRouteHandles ==
    /\ AtApp("route")
    /\ RouteMatches(AppStack[layer], reqMethod, reqPath)
    /\ handled' = AppStack[layer].handler
    /\ UNCHANGED <<runVars, parseVars, twoVars, reqMethod, reqPath, layer, rlayer>>

\* index.ts 13 and 26: app.get does not match
AppRouteSkips ==
    /\ AtApp("route")
    /\ ~RouteMatches(AppStack[layer], reqMethod, reqPath)
    /\ layer' = layer + 1
    /\ UNCHANGED <<runVars, parseVars, twoVars, reqMethod, reqPath, rlayer, handled>>

\* index.ts 21-24: app.use(path, router) matches, the router gets the request
MountEnters ==
    /\ AtApp("mount")
    /\ MountMatches(AppStack[layer].path, reqPath)
    /\ rlayer' = 1
    /\ UNCHANGED <<runVars, parseVars, twoVars, reqMethod, reqPath, layer, handled>>

\* index.ts 21-24: the request path does not start with the mount path
MountSkips ==
    /\ AtApp("mount")
    /\ ~MountMatches(AppStack[layer].path, reqPath)
    /\ layer' = layer + 1
    /\ UNCHANGED <<runVars, parseVars, twoVars, reqMethod, reqPath, rlayer, handled>>

\* the route of the router the request is at matches the rest of the path
AtRouterRoute ==
    /\ InRouter
    /\ rlayer <= Len(AppStack[layer].routes)

RouterRouteHandles ==
    /\ AtRouterRoute
    /\ RouteMatches(AppStack[layer].routes[rlayer], reqMethod,
                    StripMount(AppStack[layer].path, reqPath))
    /\ handled' = AppStack[layer].routes[rlayer].handler
    /\ UNCHANGED <<runVars, parseVars, twoVars, reqMethod, reqPath, layer, rlayer>>

RouterRouteSkips ==
    /\ AtRouterRoute
    /\ ~RouteMatches(AppStack[layer].routes[rlayer], reqMethod,
                     StripMount(AppStack[layer].path, reqPath))
    /\ rlayer' = rlayer + 1
    /\ UNCHANGED <<runVars, parseVars, twoVars, reqMethod, reqPath, layer, handled>>

\* no route of the router matched: the router calls next() of the app
RouterFallsThrough ==
    /\ InRouter
    /\ rlayer > Len(AppStack[layer].routes)
    /\ rlayer' = 0
    /\ layer' = layer + 1
    /\ UNCHANGED <<runVars, parseVars, twoVars, reqMethod, reqPath, handled>>

\* index.ts 40-47: the four-argument error handler is skipped when no error
\* was passed on
ErrorHandlerSkipped ==
    /\ AtApp("error")
    /\ layer' = layer + 1
    /\ UNCHANGED <<runVars, parseVars, twoVars, reqMethod, reqPath, rlayer, handled>>

\* index.ts 49-55: res.status(404).json({ success: false, error: 'Not found', .. })
NotFoundHandles ==
    /\ AtApp("notFound")
    /\ handled' = "404"
    /\ UNCHANGED <<runVars, parseVars, twoVars, reqMethod, reqPath, layer, rlayer>>

NextRoute ==
    \/ PassMiddleware
    \/ AppRouteHandles
    \/ AppRouteSkips
    \/ MountEnters
    \/ MountSkips
    \/ RouterRouteHandles
    \/ RouterRouteSkips
    \/ RouterFallsThrough
    \/ ErrorHandlerSkipped
    \/ NotFoundHandles

SpecRoute == InitRoute /\ [][NextRoute]_vars

----------------------------------------------------------------------------
(* Two webhook requests whose handlers are interleaved at their awaits. Each
   call of the handler has its own locals (webhooks.ts 22-92); the services
   they call are module singletons without fields that change after
   construction (openaiService.ts 4-13, 96) *)

MaxRunFiles == 2

RunIds == {1, 2}

RunFileLists == ListsOf({FileA, FileB}, MaxRunFiles)

\* the completion either carries an assessment or the request rejects
RunReplies == {Json(Arr(<<IssueWarn>>), Num(70)), ReplyReject}

\* the locals of a handler that has just been called
NewRun(files) ==
    [pc           |-> "start",
     prFiles      |-> files,
     fidx         |-> 0,
     codeFiles    |-> <<>>,
     idx          |-> 0,
     fileAnalyses |-> <<>>,
     replies      |-> <<>>,
     verdict      |-> Undefined,
     response     |-> NoResponse]

InitTwo ==
    /\ RunIdle
    /\ ParserIdle
    /\ reqMethod = "none"
    /\ reqPath = <<>>
    /\ layer = 0
    /\ rlayer = 0
    /\ handled = "none"
    /\ runs \in [RunIds -> {NewRun(files) : files \in RunFileLists}]
    /\ posted = 0

\* mutant: fileAnalyses is one array of the module, shared by the handlers
PushInRunShared(rs, r, entry) ==
    [q \in RunIds |-> [rs[q] EXCEPT !.fileAnalyses = PushResult(@, entry)]]

\* webhooks.ts 46, 52 and 65: const fileAnalyses = [] is a local of the call
PushInRun(rs, r, entry) ==
    [rs EXCEPT ![r].fileAnalyses = PushResult(@, entry)]

\* getPRInfo 60-66, from the handler (webhooks.ts 29) and from getPRCodeFiles
\* (198): pulls.get resolves and pulls.listFiles is requested
RunPullsGetReturns(r) ==
    /\ runs[r].pc \in {"start", "getPRCodeFiles"}
    /\ runs' = [runs EXCEPT ![r].pc = IF runs[r].pc = "start" THEN "listFiles"
                                                              ELSE "listFilesAgain"]
    /\ UNCHANGED <<runVars, parseVars, routeVars, posted>>

\* webhooks.ts 29-31: getPRInfo returns, getPRCodeFiles is called
RunGetPRInfo(r) ==
    /\ runs[r].pc = "listFiles"
    /\ runs' = [runs EXCEPT ![r].pc = "getPRCodeFiles"]
    /\ UNCHANGED <<runVars, parseVars, routeVars, posted>>

\* getPRInfo 59-102 and webhooks.ts 101-106: a request of getPRInfo rejects and
\* the catch of the handler answers
RunGetPRInfoFails(r) ==
    /\ runs[r].pc \in {"start", "listFiles", "getPRCodeFiles", "listFilesAgain"}
    /\ \E error \in GitHubFailures :
          runs' = [runs EXCEPT ![r].response = ErrorResponse(getPRInfoError(error)),
                               ![r].pc = "done"]
    /\ UNCHANGED <<runVars, parseVars, routeVars, posted>>

\* getPRCodeFiles 198-213: its getPRInfo returns, the for-loop is entered
RunEnterGetPRCodeFiles(r) ==
    /\ runs[r].pc = "listFilesAgain"
    /\ runs' = [runs EXCEPT ![r].fidx = 1, ![r].pc = "fetch"]
    /\ UNCHANGED <<runVars, parseVars, routeVars, posted>>

RunAtFile(r) == runs[r].pc = "fetch" /\ runs[r].fidx <= Len(runs[r].prFiles)

\* getPRCodeFiles 214-242: getFileContent resolved, the file is pushed
RunFetchContentOk(r) ==
    /\ RunAtFile(r)
    /\ LET f == runs[r].prFiles[runs[r].fidx]
       IN  /\ ~IsRemoved(f)
           /\ HasCodeExtension(f)
           /\ runs' = [runs EXCEPT
                          ![r].codeFiles = PushCodeFile(@, f, RepoContentLen(f.filename)),
                          ![r].fidx = @ + 1]
    /\ UNCHANGED <<runVars, parseVars, routeVars, posted>>

\* getPRCodeFiles 219-220, 243-245: getFileContent threw, the file is left out
RunFetchContentFails(r) ==
    /\ RunAtFile(r)
    /\ LET f == runs[r].prFiles[runs[r].fidx]
       IN  /\ ~IsRemoved(f)
           /\ HasCodeExtension(f)
           /\ runs' = [runs EXCEPT
                          ![r].codeFiles = OnFetchFailure(@, f),
                          ![r].fidx = @ + 1]
    /\ UNCHANGED <<runVars, parseVars, routeVars, posted>>

RunFilesReturned(r) == runs[r].pc = "fetch" /\ runs[r].fidx > Len(runs[r].prFiles)

\* webhooks.ts 33-41: no code files, the literal verdict goes to postPRComment
RunNoCodeFiles(r) ==
    /\ RunFilesReturned(r)
    /\ Len(runs[r].codeFiles) = 0
    /\ runs' = [runs EXCEPT ![r].verdict = NoCodeFilesVerdict, ![r].pc = "post"]
    /\ UNCHANGED <<runVars, parseVars, routeVars, posted>>

\* webhooks.ts 46-47: the loop over the code files is entered
RunEntersLoop(r) ==
    /\ RunFilesReturned(r)
    /\ Len(runs[r].codeFiles) > 0
    /\ runs' = [runs EXCEPT ![r].idx = 1, ![r].pc = "loop"]
    /\ UNCHANGED <<runVars, parseVars, routeVars, posted>>

\* webhooks.ts 49: await openAIService.analyzeCode(...), the call is issued
RunCalls(r) ==
    /\ runs[r].pc = "loop"
    /\ runs[r].idx <= Len(runs[r].codeFiles)
    /\ runs' = [runs EXCEPT ![r].pc = "calling"]
    /\ UNCHANGED <<runVars, parseVars, routeVars, posted>>

\* webhooks.ts 49-62 and 75: analyzeCode returned, the result is pushed and the
\* pacing delay starts
RunAnalysisReturns(r) ==
    /\ runs[r].pc = "calling"
    /\ \E reply \in RunReplies :
          /\ ~analyzeCode(reply).threw
          /\ runs' = PushInRun([runs EXCEPT ![r].replies = Append(@, reply),
                                            ![r].pc = "delay"],
                               r,
                               AnalysedResult(runs[r].codeFiles[runs[r].idx],
                                              analyzeCode(reply).value))
    /\ UNCHANGED <<runVars, parseVars, routeVars, posted>>

\* webhooks.ts 63-75: analyzeCode threw, the placeholder is pushed
RunAnalysisThrows(r) ==
    /\ runs[r].pc = "calling"
    /\ \E reply \in RunReplies :
          /\ analyzeCode(reply).threw
          /\ runs' = PushInRun([runs EXCEPT ![r].replies = Append(@, reply),
                                            ![r].pc = "delay"],
                               r,
                               FailedResult(runs[r].codeFiles[runs[r].idx],
                                            analyzeCode(reply).message))
    /\ UNCHANGED <<runVars, parseVars, routeVars, posted>>

\* webhooks.ts 75: the pacing promise resolved, the loop goes to the next file
RunDelayDone(r) ==
    /\ runs[r].pc = "delay"
    /\ runs' = [runs EXCEPT ![r].idx = NextIndex(@), ![r].pc = "loop"]
    /\ UNCHANGED <<runVars, parseVars, routeVars, posted>>

\* webhooks.ts 78-92: the verdict over the handler's own results
RunAggregates(r) ==
    /\ runs[r].pc = "loop"
    /\ runs[r].idx > Len(runs[r].codeFiles)
    /\ runs' = [runs EXCEPT ![r].verdict = Aggregate(runs[r].fileAnalyses),
                            ![r].pc = "post"]
    /\ UNCHANGED <<runVars, parseVars, routeVars, posted>>

\* webhooks.ts 94-100 and 34-43: postPRComment returned, with or without a
\* comment created, and the response is sent
RunResponds(r) ==
    /\ runs[r].pc = "post"
    /\ posted' \in {posted, posted + 1}
    /\ runs' = [runs EXCEPT
                   ![r].response =
                       IF Len(runs[r].codeFiles) = 0
                       THEN [status |-> 200,
                             body |-> [message |-> "No code files to analyze"]]
                       ELSE [status |-> 200,
                             body |-> [success |-> TRUE,
                                       message |-> "PR analyzed and comment posted",
                                       data |-> runs[r].verdict]],
                   ![r].pc = "done"]
    /\ UNCHANGED <<runVars, parseVars, routeVars>>

NextTwo ==
    \E r \in RunIds :
        \/ RunPullsGetReturns(r)
        \/ RunGetPRInfo(r)
        \/ RunGetPRInfoFails(r)
        \/ RunEnterGetPRCodeFiles(r)
        \/ RunFetchContentOk(r)
        \/ RunFetchContentFails(r)
        \/ RunNoCodeFiles(r)
        \/ RunEntersLoop(r)
        \/ RunCalls(r)
        \/ RunAnalysisReturns(r)
        \/ RunAnalysisThrows(r)
        \/ RunDelayDone(r)
        \/ RunAggregates(r)
        \/ RunResponds(r)

SpecTwo == InitTwo /\ [][NextTwo]_vars

----------------------------------------------------------------------------
(* Properties of the review run *)

\* position of the last "." of a file name, 0 when it has none
LastDot(name) ==
    IF \E i \in 1..Len(name) : name[i] = "."
    THEN CHOOSE i \in 1..Len(name) :
             name[i] = "." /\ \A j \in (i + 1)..Len(name) : name[j] # "."
    ELSE 0

\* a changed file the review is meant to analyse: not removed, and its name has
\* a dot whose suffix, in lower case, is a recognised extension
EligibleForAnalysis(file) ==
    /\ file.status # "removed"
    /\ LastDot(file.filename) > 0
    /\ ToLowerCase(SubSeq(file.filename, LastDot(file.filename), Len(file.filename)))
           \in CodeExtensions

\* position of the changed file of that name in the list the fetch returned
PositionOf(name) == CHOOSE i \in 1..Len(prFiles) : prFiles[i].filename = name

ContentFetchFailed(name) ==
    \E j \in 1..Len(contentFetches) :
        contentFetches[j].filename = name /\ ~contentFetches[j].ok

\* the analysis call threw or rejected: no JSON object came back
CallFailed(reply) == reply.kind # "json"

IsPlaceholder(result) ==
    /\ result.issues = Arr(<<>>)
    /\ result.qualityScore = Num(0)
    /\ result.summary # ""

ResultsComplete == verdict # Undefined

\* C1: in a PR review run every eligible changed file has a result, in the
\* order of the changed files, and a file whose content fetch failed has a
\* result with score 0 and a failure summary
C1_FetchFailureKeepsItsPlace ==
    (path \in PRPaths /\ ResultsComplete) =>
        LET eligible == SelectSeq(prFiles, EligibleForAnalysis)
        IN  /\ Len(verdict.files) = Len(eligible)
            /\ \A k \in 1..Len(eligible) :
                  /\ verdict.files[k].filename = eligible[k].filename
                  /\ ContentFetchFailed(eligible[k].filename) =>
                        /\ verdict.files[k].qualityScore = Num(0)
                        /\ verdict.files[k].summary # ""

\* C2: in a PR review run a file whose analysis call threw or rejected has a
\* result at its own position with score 0 and a non-empty summary, the files
\* after it are still analysed, and once the loop is over there are as many
\* results as files handed to the loop
C2_FailedAnalysisKeepsItsPlace ==
    path \in PRPaths =>
        /\ Len(fileAnalyses) <= Len(codeFiles)
        /\ \A k \in 1..Len(fileAnalyses) :
              /\ fileAnalyses[k].filename = codeFiles[k].filename
              /\ CallFailed(analysisReplies[k].reply) =>
                    /\ fileAnalyses[k].qualityScore = Num(0)
                    /\ fileAnalyses[k].summary # ""
        /\ (LoopOver \/ pc \in {"post", "done"}) =>
              /\ Len(fileAnalyses) = Len(codeFiles)
              /\ Len(analysisCalls) = Len(codeFiles)

C2_Witness ==
    /\ path = "webhook"
    /\ pc = "done"
    /\ Len(codeFiles) = 3
    /\ Len(fileAnalyses) = 3
    /\ analysisReplies[1].reply = ReplyReject
    /\ analysisReplies[2].reply \in WellFormedReplies
    /\ analysisReplies[3].reply = ReplyText
    /\ fileAnalyses[1].qualityScore = Num(0)
    /\ fileAnalyses[2].qualityScore # Num(0)

\* an analysis call of the run came back with a malformed or empty reply
GotMalformedReply ==
    \E k \in 1..Len(analysisReplies) : analysisReplies[k].reply \in MalformedReplies

\* C3: a PR review run in which an analysis call came back with a malformed or
\* empty reply fails that one file only: the run ends with a success response
\* and an aggregate verdict, and the file carries a placeholder result
C3_MalformedReplyFailsOneFile ==
    (path \in PRPaths /\ pc = "done" /\ GotMalformedReply) =>
        /\ response.status = 200
        /\ ResultsComplete
        /\ Len(fileAnalyses) = Len(analysisReplies)
        /\ \A k \in 1..Len(fileAnalyses) :
              analysisReplies[k].reply \in MalformedReplies =>
                  IsPlaceholder(fileAnalyses[k])

\* C4: in a PR review run the results, and the analysis calls, follow the order
\* in which the fetch step returned the files, and the verdict lists the
\* results in that order
C4_ResultsInFetchOrder ==
    path \in PRPaths =>
        /\ \A k \in 1..Len(codeFiles) :
              \E i \in 1..Len(prFiles) : prFiles[i].filename = codeFiles[k].filename
        /\ \A j, k \in 1..Len(codeFiles) :
              j < k => PositionOf(codeFiles[j].filename) < PositionOf(codeFiles[k].filename)
        /\ Len(analysisCalls) <= Len(codeFiles)
        /\ \A k \in 1..Len(analysisCalls) :
              analysisCalls[k].filename = codeFiles[k].filename
        /\ \A k \in 1..Len(fileAnalyses) :
              fileAnalyses[k].filename = codeFiles[k].filename
        /\ ResultsComplete =>
              /\ Len(verdict.files) = Len(codeFiles)
              /\ \A k \in 1..Len(codeFiles) :
                    verdict.files[k].filename = codeFiles[k].filename

C4_Witness ==
    /\ path = "pr"
    /\ pc = "done"
    /\ prFiles = <<FileC, FileD, FileA>>
    /\ ResultsComplete
    /\ Len(verdict.files) = 2
    /\ verdict.files[1].filename = FileC.filename
    /\ verdict.files[2].filename = FileA.filename
    /\ CallFailed(analysisReplies[1].reply)
    /\ ~CallFailed(analysisReplies[2].reply)

\* C5: at most one analysis call is outstanding, and a call starts no sooner
\* than a full pacing delay after the call before it ended, whether that call
\* succeeded or failed
C5_OneCallAtATimePaced ==
    /\ outstanding <= 1
    /\ Len(analysisCalls) <= Len(analysisReplies) + 1
    /\ \A k \in 2..Len(analysisCalls) :
          analysisCalls[k].start - analysisReplies[k - 1].end >= PacingMs

C5_Witness ==
    /\ pc = "calling"
    /\ outstanding = 1
    /\ Len(analysisCalls) = 3
    /\ CallFailed(analysisReplies[1].reply)
    /\ ~CallFailed(analysisReplies[2].reply)

\* C6: in a PR review run a changed file that is removed, or whose extension
\* is not recognised, is never fetched, never analysed and has no result
C6_IneligibleNeverFetchedNorAnalysed ==
    path \in PRPaths =>
        \A i \in 1..Len(prFiles) :
            ~EligibleForAnalysis(prFiles[i]) =>
                /\ \A j \in 1..Len(contentFetches) :
                      contentFetches[j].filename # prFiles[i].filename
                /\ \A j \in 1..Len(analysisCalls) :
                      analysisCalls[j].filename # prFiles[i].filename
                /\ \A j \in 1..Len(fileAnalyses) :
                      fileAnalyses[j].filename # prFiles[i].filename

C6_Witness ==
    /\ path = "webhook"
    /\ pc = "done"
    /\ prFiles = <<FileD, FileB, FileE>>
    /\ Len(contentFetches) = 1
    /\ contentFetches[1].filename = FileB.filename
    /\ Len(fileAnalyses) = 1

\* C7: whenever no file was analysed, the verdict has overall score 100 and no
\* issues of any kind, on every path that computes a verdict
C7_NoFilesScores100 ==
    (ResultsComplete /\ Len(verdict.files) = 0) =>
        /\ verdict.overallScore = Num(100)
        /\ verdict.totalIssues = 0
        /\ verdict.criticalIssues = 0
        /\ verdict.warnings = 0

RECURSIVE ScoreTotal(_)
ScoreTotal(results) ==
    IF Len(results) = 0 THEN 0
    ELSE Head(results).qualityScore.v + ScoreTotal(Tail(results))

Scores(results) == [k \in 1..Len(results) |-> results[k].qualityScore]

\* C8: for a non-empty result sequence with integer scores in 0..100 the
\* overall score is the integer nearest to the mean of the scores, so it is
\* in 0..100; scores 90, 70, 50 give 70
C8_OverallIsRoundedMean ==
    (/\ ResultsComplete
     /\ Len(verdict.files) > 0
     /\ \A k \in 1..Len(verdict.files) :
           /\ verdict.files[k].qualityScore.t = "number"
           /\ verdict.files[k].qualityScore.v \in 0..100) =>
        LET n     == Len(verdict.files)
            total == ScoreTotal(verdict.files)
            o     == verdict.overallScore
        IN  /\ o.t = "number"
            /\ o.v \in 0..100
            /\ 2 * (o.v * n - total) <= n
            /\ 2 * (total - o.v * n) <= n
            /\ (Scores(verdict.files) = <<Num(90), Num(70), Num(50)>> => o.v = 70)

C8_Witness ==
    /\ ResultsComplete
    /\ Scores(verdict.files) = <<Num(90), Num(70), Num(50)>>
    /\ verdict.overallScore = Num(70)

\* C9: on every path the result of a file whose analysis failed has an empty
\* issue list and score 0
C9_FailedFileAddsNothing ==
    \A k \in 1..Len(fileAnalyses) :
        CallFailed(analysisReplies[k].reply) =>
            /\ fileAnalyses[k].issues = Arr(<<>>)
            /\ fileAnalyses[k].qualityScore = Num(0)

----------------------------------------------------------------------------
(* Properties of extractCodeChanges *)

\* the lines the loop has gone through
ParsedLines == IF ppc \in {"loop", "done"} THEN 1..(lineNo - 1) ELSE {}

\* a line the loop turns into a record, and the index of that record
EmitsChange(l) ==
    ~IsHunkLine(l) /\ (IsAddedLine(l) \/ IsRemovedLine(l) \/ IsContextLine(l))
ChangeOf(i) == Cardinality({j \in 1..i : EmitsChange(lines[j])})

\* a patch all of whose @@ lines are hunk headers of the unified-diff form
\* @@ -<oldStart>[,<oldCount>] +<newStart>[,<newCount>] @@
WellFormedPatch ==
    \A h \in 1..Len(lines) : IsHunkLine(lines[h]) => HunkMatchAt(lines[h], 1)

\* the header of the hunk that line i lies in, 0 when no header precedes it
HeaderOf(i) ==
    LET hs == {h \in 1..(i - 1) : IsHunkLine(lines[h])}
    IN  IF hs = {} THEN 0 ELSE CHOOSE h \in hs : \A g \in hs : g <= h

\* the new-file start a header declares: the number that follows its "+"
DeclaredNewStart(header) ==
    LET plus == CHOOSE i \in 1..Len(header) : header[i] = "+"
    IN  ParseInt(SubSeq(header, plus + 1, DigitsEnd(header, plus + 1)))

IsNewFileLine(l) == ~IsHunkLine(l) /\ (IsAddedLine(l) \/ IsContextLine(l))

\* C10: in a well-formed patch the added and context records of a hunk are
\* numbered from the new-file start its header declares, one more for each
\* added or context record before them in the hunk, whatever removed or
\* ignored lines lie between, and the numbering starts again at each header
C10_NewFileNumbersCountUp ==
    WellFormedPatch =>
        \A i \in ParsedLines :
            (HeaderOf(i) > 0 /\ IsNewFileLine(lines[i])) =>
                LET h      == HeaderOf(i)
                    before == {j \in (h + 1)..(i - 1) : IsNewFileLine(lines[j])}
                IN  /\ changes[ChangeOf(i)].type \in {"added", "context"}
                    /\ changes[ChangeOf(i)].line =
                           DeclaredNewStart(lines[h]) + Cardinality(before)

C10_Witness ==
    /\ ppc = "done"
    /\ lines = <<LineHunkFull, LineAdded, LineRemoved, LineContext>>
    /\ Len(changes) = 3
    /\ changes[1].type = "added" /\ changes[1].line = 20
    /\ changes[2].type = "removed"
    /\ changes[3].type = "context" /\ changes[3].line = 21

\* the old-file start a well-formed header declares: the number that follows
\* its "@@ -"
DeclaredOldStart(header) == ParseInt(SubSeq(header, 5, DigitsEnd(header, 5)))

IsOldFileLine(l) == ~IsHunkLine(l) /\ ~IsAddedLine(l) /\ (IsRemovedLine(l) \/ IsContextLine(l))

\* C11: in a well-formed patch a removed record is numbered from the old-file
\* start its header declares, one more for each removed or context line before
\* it in the hunk; the added lines before it do not count
C11_RemovedNumbersCountUp ==
    WellFormedPatch =>
        \A i \in ParsedLines :
            (HeaderOf(i) > 0 /\ ~IsHunkLine(lines[i]) /\ ~IsAddedLine(lines[i])
                /\ IsRemovedLine(lines[i])) =>
                LET h      == HeaderOf(i)
                    before == {j \in (h + 1)..(i - 1) : IsOldFileLine(lines[j])}
                IN  /\ changes[ChangeOf(i)].type = "removed"
                    /\ changes[ChangeOf(i)].line =
                           DeclaredOldStart(lines[h]) + Cardinality(before)

\* the lines gone through that lie after some line starting with @@
LinesInHunks == {j \in ParsedLines : HeaderOf(j) > 0}

\* C12: a line before the first hunk header yields no record, so the records
\* are exactly those of the record-yielding lines that follow a header, and a
\* patch without any header yields none
C12_NothingBeforeFirstHeader ==
    /\ Len(changes) = Cardinality({j \in LinesInHunks : EmitsChange(lines[j])})
    /\ (ppc = "done" /\ \A h \in 1..Len(lines) : ~IsHunkLine(lines[h])) => changes = <<>>

\* the lines gone through whose nearest @@ line above has no numeric match
LinesUnderBadHeader ==
    {j \in LinesInHunks : ~HunkMatch(lines[HeaderOf(j)]).matched}

\* the first record-yielding line after its header
FirstOfHunk(i) ==
    /\ HeaderOf(i) > 0
    /\ EmitsChange(lines[i])
    /\ \A j \in (HeaderOf(i) + 1)..(i - 1) : ~EmitsChange(lines[j])

\* C13: a line starting with @@ without a numeric match yields no record for
\* any line up to the next @@ line, and a hunk whose header does match starts
\* its numbering at the starts that header declares
C13_BadHeaderYieldsNothing ==
    /\ Len(changes) =
          Cardinality({j \in ParsedLines \ LinesUnderBadHeader : EmitsChange(lines[j])})
    /\ \A i \in ParsedLines :
          (FirstOfHunk(i) /\ HunkMatch(lines[HeaderOf(i)]).matched) =>
              changes[ChangeOf(i)].line =
                  IF IsRemovedLine(lines[i]) /\ ~IsAddedLine(lines[i])
                  THEN HunkMatch(lines[HeaderOf(i)]).oldStart
                  ELSE HunkMatch(lines[HeaderOf(i)]).newStart

----------------------------------------------------------------------------
(* Properties of the webhook endpoint and of the fetch step *)

\* C14: once the caller has given up on a run, the run issues no further
\* analysis call
C14_NoCallAfterCancellation ==
    [][cancelled => Len(analysisCalls') <= Len(analysisCalls)]_vars

\* C15: whatever deliveries were accepted for the pull request, it carries at
\* most one summary comment of this pipeline
C15_AtMostOneSummaryComment == comments <= 1

\* the webhook handler has gone through postPRComment and answered
PostStepOver == path = "webhook" /\ pc = "done" /\ ResultsComplete

\* C16: in the webhook run, whether the comment was posted or not, the
\* response is a success that carries the verdict computed before the post
C16_PostOutcomeKeepsVerdict ==
    PostStepOver =>
        /\ response.status = 200
        /\ "data" \in DOMAIN response.body
        /\ response.body.data = verdict

\* C16 as amended: whether the comment was posted or not, the response is a
\* success; it carries the verdict computed before the post when at least one
\* code file was analysed, and only a message when there was none
C16_PostOutcomeKeepsVerdictOfAnalysedFiles ==
    PostStepOver =>
        /\ response.status = 200
        /\ IF Len(codeFiles) > 0
           THEN /\ "data" \in DOMAIN response.body
                /\ response.body.data = verdict
                /\ verdict.files = fileAnalyses
                /\ Len(verdict.files) = Len(codeFiles)
           ELSE /\ response.body = [message |-> "No code files to analyze"]
                /\ verdict.files = <<>>

C16_Witness ==
    /\ PostStepOver
    /\ comments = 0
    /\ commentBody = Undefined
    /\ Len(codeFiles) = 2
    /\ response.status = 200
    /\ response.body.data = verdict
    /\ Len(verdict.files) = 2

\* the three kinds of failure of the PR fetch
KindOfFailure(error) ==
    IF error.status = 404 THEN "not found"
    ELSE IF error.status \in {401, 403} THEN "authentication"
    ELSE "other"

PRFetchFailed ==
    /\ path \in PRPaths
    /\ Len(prFetches) > 0
    /\ prFetches[Len(prFetches)] # FetchedOk

\* C17: when a fetch of the pull request or of its file list fails, the run is
\* over with an error response, no analysis call was made and no comment was
\* posted, and the message of the error tells the kind of the failure
C17_PRFetchFailureAbortsRun ==
    PRFetchFailed =>
        LET error == prFetches[Len(prFetches)]
        IN  /\ pc = "done"
            /\ analysisCalls = <<>>
            /\ comments = 0
            /\ commentBody = Undefined
            /\ ~ResultsComplete
            /\ response.status = 500
            /\ (KindOfFailure(error) = "not found") <=>
                  (response.body.error = "PR #7 not found in octo/app")
            /\ (KindOfFailure(error) = "authentication") <=>
                  (response.body.error =
                       "GitHub authentication failed. Check your GITHUB_TOKEN.")
            /\ (KindOfFailure(error) = "other") <=>
                  (response.body.error = "Failed to fetch PR: " \o error.message)

C17_Witness ==
    /\ path = "webhook"
    /\ pc = "done"
    /\ prFetches = <<FetchedOk, Forbidden>>
    /\ response.status = 500
    /\ analysisCalls = <<>>
    /\ comments = 0

\* the result the file would have had, had it been analysed and found to
\* score 0 with no issue
AnalysedAsZero(file) ==
    AnalysedResult(file, [issues |-> Arr(<<>>), qualityScore |-> Num(0),
                          summary |-> "assessment"])

\* C18: in the comment, the section of a file whose analysis failed differs
\* from the section the file would have, had it been analysed and scored 0
\* with no issue
C18_CommentMarksFailedFiles ==
    (path = "webhook" /\ pc = "done" /\ commentBody # Undefined) =>
        \A k \in 1..Len(verdict.files) :
            (CallFailed(analysisReplies[k].reply) /\ IsPlaceholder(verdict.files[k])) =>
                commentBody.files[k] # RenderFile(AnalysedAsZero(verdict.files[k]))

\* what getFileContent returned for the file of that name
FetchedLen(name) ==
    LET j == CHOOSE i \in 1..Len(contentFetches) :
                 contentFetches[i].filename = name /\ contentFetches[i].ok
    IN  contentFetches[j].len

\* C19: in a PR review run the code passed to an analysis call starts at the
\* first character of the fetched content, ends within it, has at most 50000
\* characters, and is the whole content when that has 50000 characters or fewer
C19_PayloadIsBoundedPrefix ==
    path \in PRPaths =>
        \A k \in 1..Len(analysisCalls) :
            LET code == analysisCalls[k].code
                len  == FetchedLen(analysisCalls[k].filename)
            IN  /\ code.from = 0
                /\ code.to <= len
                /\ code.to - code.from <= 50000
                /\ len <= 50000 => code.to = len

C19_Witness ==
    /\ path = "pr"
    /\ pc = "done"
    /\ prFiles = <<FileB, FileA, FileC>>
    /\ Len(analysisCalls) = 3
    /\ FetchedLen(FileB.filename) > 50000
    /\ analysisCalls[1].code = [from |-> 0, to |-> 50000]
    /\ FetchedLen(FileA.filename) < 50000
    /\ analysisCalls[2].code = [from |-> 0, to |-> FetchedLen(FileA.filename)]
    /\ FetchedLen(FileC.filename) = 50000
    /\ analysisCalls[3].code = [from |-> 0, to |-> 50000]

\* a delivery the endpoint is to review
ToBeReviewed(d) ==
    d.event = "pull_request" /\ d.action \in {"opened", "synchronize", "reopened"}

\* C20: a webhook delivery that is not a pull_request event with action
\* opened, synchronize or reopened is answered with success without any fetch
\* from GitHub, analysis call or comment; one that is, is not answered before
\* the pull request was asked for
C20_OnlyAcceptedDeliveriesStartAReview ==
    path = "webhook" =>
        /\ ~ToBeReviewed(delivery) =>
              /\ pc \in {"start", "done"}
              /\ prFetches = <<>>
              /\ contentFetches = <<>>
              /\ analysisCalls = <<>>
              /\ commentBody = Undefined
              /\ pc = "done" => response.status = 200
        /\ (ToBeReviewed(delivery) /\ githubToken /\ pc = "done") =>
              prFetches # <<>>

C20_Witness ==
    /\ path = "webhook"
    /\ pc = "done"
    /\ deliveries = 2
    /\ comments = 1
    /\ delivery = PullRequest("closed")
    /\ response = [status |-> 200, body |-> [message |-> "Action ignored"]]
    /\ prFetches = <<>>

\* C21: without a GitHub token an accepted webhook delivery is still analysed
\* and answered with its verdict; only the comment is missing
C21_TokenOnlyNeededForComment ==
    (path = "webhook" /\ ToBeReviewed(delivery) /\ ~githubToken /\ pc = "done") =>
        /\ response.status = 200
        /\ ResultsComplete
        /\ Len(analysisCalls) = Len(codeFiles)
        /\ comments = 0

\* the analysis calls made for, and the results held of, the file of that name
CallsFor(name) ==
    Cardinality({j \in 1..Len(analysisCalls) : analysisCalls[j].filename = name})
ResultsFor(name) ==
    Cardinality({j \in 1..Len(fileAnalyses) : fileAnalyses[j].filename = name})

\* the analysis loop of the run has gone through all its files
LoopFinished == LoopOver \/ pc \in {"post", "done"}

\* C23: in a PR review run a file handed to the loop never has more than one
\* analysis call or more than one result, whether its call failed or not, and
\* once the loop is over it has exactly one of each; no other call is made
C23_OneCallOneResultPerFile ==
    path \in PRPaths =>
        /\ Len(analysisCalls) <= Len(codeFiles)
        /\ Len(fileAnalyses) <= Len(analysisCalls)
        /\ \A k \in 1..Len(codeFiles) :
              LET name == codeFiles[k].filename
              IN  /\ CallsFor(name) <= 1
                  /\ ResultsFor(name) <= CallsFor(name)
                  /\ LoopFinished => (CallsFor(name) = 1 /\ ResultsFor(name) = 1)

C23_Witness ==
    /\ path = "pr"
    /\ pc = "done"
    /\ Len(codeFiles) = 3
    /\ Len(analysisCalls) = 3
    /\ Len(fileAnalyses) = 3
    /\ \A k \in 1..3 : analysisReplies[k].reply = ReplyReject

\* the issues of one severity, and all the issues, counted result by result
RECURSIVE IssuesOfSeverity(_, _)
IssuesOfSeverity(results, severity) ==
    IF Len(results) = 0 THEN 0
    ELSE Cardinality({i \in 1..Len(Head(results).issues.v) :
                          Head(results).issues.v[i].severity = severity})
             + IssuesOfSeverity(Tail(results), severity)

RECURSIVE IssuesIn(_)
IssuesIn(results) ==
    IF Len(results) = 0 THEN 0
    ELSE Len(Head(results).issues.v) + IssuesIn(Tail(results))

OtherSeverityIn(results) ==
    \E k \in 1..Len(results) : \E i \in 1..Len(results[k].issues.v) :
        results[k].issues.v[i].severity \notin {"critical", "warning"}

\* C25: the verdict counts the critical issues, the warnings and all the
\* issues of its results; the total is at least critical plus warnings, and
\* equal to it exactly when no issue has another severity
C25_CountsMatchIssues ==
    ResultsComplete =>
        /\ verdict.criticalIssues = IssuesOfSeverity(verdict.files, "critical")
        /\ verdict.warnings = IssuesOfSeverity(verdict.files, "warning")
        /\ verdict.totalIssues = IssuesIn(verdict.files)
        /\ verdict.totalIssues >= verdict.criticalIssues + verdict.warnings
        /\ (verdict.totalIssues = verdict.criticalIssues + verdict.warnings)
               <=> ~OtherSeverityIn(verdict.files)

C25_Witness ==
    /\ ResultsComplete
    /\ Len(verdict.files) = 2
    /\ verdict.files[1].issues = Arr(<<IssueCrit, IssueInfo>>)
    /\ verdict.files[2].issues = Arr(<<IssueWarn>>)
    /\ verdict.totalIssues = 3
    /\ verdict.criticalIssues = 1
    /\ verdict.warnings = 1

\* a patch line of a hunk that stands for a line of the old or the new file,
\* whatever follows its first character
IsSourceLine(l) ==
    ~IsHunkLine(l) /\ (StartsWith(l, <<"+">>) \/ StartsWith(l, <<"-">>) \/ StartsWith(l, <<" ">>))
InNewFile(l) == ~IsHunkLine(l) /\ (StartsWith(l, <<"+">>) \/ StartsWith(l, <<" ">>))

\* C27: in a well-formed patch that starts with a hunk header every line that
\* adds, removes or keeps a source line yields a record, also when its content
\* begins with ++ or --, and an added or context record is numbered with the
\* position of its line in the new file
C27_EverySourceLineCounts ==
    (WellFormedPatch /\ Len(lines) > 0 /\ IsHunkLine(lines[1])) =>
        /\ Len(changes) = Cardinality({j \in ParsedLines : IsSourceLine(lines[j])})
        /\ \A i \in ParsedLines :
              IsNewFileLine(lines[i]) =>
                  LET h      == HeaderOf(i)
                      before == {j \in (h + 1)..(i - 1) : InNewFile(lines[j])}
                  IN  changes[ChangeOf(i)].line =
                          DeclaredNewStart(lines[h]) + Cardinality(before)

\* the step in which the handler sends the response to the delivery
ResponseSent == response = NoResponse /\ response' # NoResponse

\* every file handed to the loop has its result and the pacing delay after the
\* last file is over
LoopWorkDone ==
    /\ Len(fileAnalyses) = Len(codeFiles)
    /\ \A k \in 1..Len(codeFiles) : fileAnalyses[k].filename = codeFiles[k].filename
    /\ Len(codeFiles) > 0 =>
          /\ idx > Len(codeFiles)
          /\ timer = 0
          /\ now >= Len(codeFiles) * PacingMs

\* the step ends the comment-post attempt of the run
PostAttemptEnds == pc = "post" /\ pc' = "done"

\* a delivery is answered, and answered once
OneResponsePerDelivery ==
    /\ (pc = "start") ~> (response # NoResponse)
    /\ [][response # NoResponse => response' = response]_vars

\* C26 as stated: every delivery is answered exactly once, and the response to
\* an accepted pull_request delivery is sent only when every file of the loop
\* has its result, the last pacing delay is over and the comment-post attempt
\* has ended
C26_ResponseAfterLoopAndPost ==
    /\ OneResponsePerDelivery
    /\ [][(ResponseSent /\ ToBeReviewed(delivery)) =>
             (LoopWorkDone /\ PostAttemptEnds)]_vars

\* C26 amended: every delivery is answered exactly once; a success response to
\* an accepted pull_request delivery is sent only when every file of the loop
\* has its result, the last pacing delay is over and the comment-post attempt
\* has ended, and an error response is sent with no comment-post attempt
C26_SuccessResponseAfterLoopAndPost ==
    /\ OneResponsePerDelivery
    /\ [][(ResponseSent /\ ToBeReviewed(delivery)) =>
             IF response'.status = 200
             THEN LoopWorkDone /\ PostAttemptEnds
             ELSE /\ pc # "post"
                  /\ comments' = comments
                  /\ commentBody = Undefined]_vars

C26_Witness ==
    /\ path = "webhook"
    /\ ToBeReviewed(delivery)
    /\ pc = "done"
    /\ response # NoResponse
    /\ response.status = 200
    /\ Len(codeFiles) = 2
    /\ Len(fileAnalyses) = 2
    /\ now >= 2 * PacingMs
    /\ comments = 1

\* the endpoints the backend README lists, each with the route it documents
ReadmeEndpoints ==
    { [method |-> "POST", path |-> <<"api", "analyze", "code">>, handler |-> "/code"],
      [method |-> "POST", path |-> <<"api", "analyze", "codebase">>, handler |-> "/codebase"],
      [method |-> "POST", path |-> <<"api", "analyze", "architecture">>,
       handler |-> "/architecture"],
      [method |-> "POST", path |-> <<"api", "documentation", "generate">>,
       handler |-> "/documentation/generate"],
      [method |-> "POST", path |-> <<"api", "tests", "generate">>,
       handler |-> "/tests/generate"] }

\* C22: a request to an endpoint of the backend README is answered by the
\* route handler the README documents for it, never by the 404 handler
C22_ReadmeEndpointsReachTheirHandlers ==
    \A e \in ReadmeEndpoints :
        (reqMethod = e.method /\ reqPath = e.path /\ handled # "none") =>
            handled = e.handler

\* what a handler that runs alone holds after the external responses given:
\* one result per response, for its own files in their order
ResultsAlone(files, replies) ==
    [k \in 1..Len(replies) |->
        IF analyzeCode(replies[k]).threw
        THEN FailedResult(files[k], analyzeCode(replies[k]).message)
        ELSE AnalysedResult(files[k], analyzeCode(replies[k]).value)]

\* C24: however two review runs are interleaved, the results and the verdict
\* of each are those the run produces alone with the same external responses:
\* its own files only, in its own order
C24_RunsShareNoResults ==
    \A r \in RunIds :
        LET run   == runs[r]
            alone == ResultsAlone(run.codeFiles, run.replies)
        IN  /\ Len(run.replies) <= Len(run.codeFiles)
            /\ run.fileAnalyses = alone
            /\ \A k \in 1..Len(run.fileAnalyses) :
                  run.fileAnalyses[k].filename = run.codeFiles[k].filename
            /\ (run.verdict # Undefined /\ Len(run.codeFiles) > 0) =>
                  /\ Len(run.replies) = Len(run.codeFiles)
                  /\ run.verdict = Aggregate(alone)
            /\ (run.response.status = 200 /\ Len(run.codeFiles) > 0) =>
                  run.response.body.data = Aggregate(alone)
            /\ \A k \in 1..Len(run.codeFiles) :
                  \E j \in 1..Len(run.prFiles) :
                      run.codeFiles[k].filename = run.prFiles[j].filename

C24_Witness ==
    /\ runs # <<>>
    /\ runs[1].prFiles = <<FileA, FileB>>
    /\ runs[2].prFiles = <<FileB, FileA>>
    /\ runs[1].pc = "calling"
    /\ runs[2].pc = "delay"
    /\ Len(runs[1].fileAnalyses) = 1
    /\ Len(runs[2].fileAnalyses) = 1
    /\ runs[1].replies # <<ReplyReject>>
    /\ runs[2].replies = <<ReplyReject>>

====
